---------------------------- MODULE Spec2Model ----------------------------
(***************************************************************************)
(* Resource Utilization Calculator (RUC) of model_compression_toolkit:     *)
(* core/common/mixed_precision/resource_utilization_tools/                 *)
(* resource_utilization_calculator.py.                                     *)
(*                                                                         *)
(* One ResourceUtilizationCalculator instance over a borrowed graph.  The  *)
(* state is the graph, the memoized cut cache (_cuts) and the last public  *)
(* call with what it returned or raised.  Every method of the class is an  *)
(* operator computed the way the code computes it; every call is an action.*)
(***************************************************************************)
EXTENDS Integers, Sequences, FiniteSets, TLC

VARIABLES graph,    \* the borrowed Graph (self.graph), fixed for the RUC's lifetime
          cache,    \* self._cuts: [filled |-> FALSE] is None, else the cached cuts
          call,     \* the last call: its operation and arguments
          result,   \* what the last call returned: [err, val]
          threads   \* the calls dispatched in parallel on the instance, if any

vars == <<graph, cache, call, result, threads>>

(***************************************************************************)
(* Bounds of the model.                                                    *)
(***************************************************************************)
MaxNodes == 3

\* the number of calls dispatched in parallel
MaxThreads == 2

(***************************************************************************)
(* Program constants and enumerations.                                     *)
(***************************************************************************)
FLOAT_BITWIDTH == 32

BitwidthMode == {"Float", "Q8Bit", "QMaxBit", "QMinBit", "QCustom", "QDefaultSP"}

TargetInclusionCriterion == {"QConfigurable", "QNonConfigurable", "AnyQuantized", "Any"}

RUTarget == {"WEIGHTS", "ACTIVATION", "TOTAL", "BOPS"}

\* the values that have a .name attribute: the members of an Enum
HasName(v) == v \in BitwidthMode \cup TargetInclusionCriterion \cup RUTarget

(***************************************************************************)
(* Return values and exceptions.  A call yields [err |-> "none", val |-> v]*)
(* or [err |-> e, val |-> d], e naming the raise statement that fired and  *)
(* d a default of the value's type.                                        *)
(***************************************************************************)
Ret(v) == [err |-> "none", val |-> v]

Raise(e, d) == [err |-> e, val |-> d]

Failed(r) == r.err # "none"

\* The raise statements of the class that raise ValueError, the one for a
\* bit-width mode that is no member of BitwidthMode included.  For a weight
\* the message of that raise reads bitwidth_mode.name, so that it is reached
\* as a ValueError only by a value that has a name (HasName); any other value
\* fails with "AttributeError" while the message is built.
ValueErrors == {"UnexpectedQc", "UnusedWeightQc", "UnusedActivationQc",
                "UnexpectedWeightAttrs", "EmptyAttrList", "AmbiguousActivation",
                "AmbiguousWeight", "TopoSort", "EmptyMax", "UnknownMode"}

\* The assert statements of the class: custom configuration only in mode
\* QCustom, one incoming edge for BOPS, computed metrics as requested.
AssertionErrors == {"AssertCustomMode", "AssertSingleInput", "AssertMetrics"}

\* The raise statements of the class that raise NotImplementedError.
NotImplementedErrors == {"BopsCriterion", "MultipleKernelAttrs"}

(***************************************************************************)
(* Utilization: size and bytes.  bytes_ = size * nbits / 8 is a true       *)
(* division; the quotient is kept exact as whole bytes plus eighths.       *)
(***************************************************************************)
BytesOf(bits) == [whole |-> bits \div 8, eighths |-> bits % 8]

BytesAdd(a, b) ==
    [whole   |-> a.whole + b.whole + ((a.eighths + b.eighths) \div 8),
     eighths |-> (a.eighths + b.eighths) % 8]

BytesGt(a, b) == a.whole > b.whole \/ (a.whole = b.whole /\ a.eighths > b.eighths)

BytesGe(a, b) == a = b \/ BytesGt(a, b)

ZeroBytes == BytesOf(0)

Utilization(size, bytes) == [size |-> size, bytes |-> bytes]

UtilizationAdd(self, other) ==
    Utilization(self.size + other.size, BytesAdd(self.bytes, other.bytes))

UtilizationGt(self, other) == BytesGt(self.bytes, other.bytes)

ZeroUtilization == Utilization(0, ZeroBytes)

\* d[item.key] = item of a detail map, a dict in insertion order: a key that
\* is already in the map keeps its place and takes the new value, a new key
\* goes last
DictAssign(d, item) ==
    IF \E i \in DOMAIN d : d[i].key = item.key
    THEN [i \in DOMAIN d |-> IF d[i].key = item.key THEN item ELSE d[i]]
    ELSE Append(d, item)

\* sum(utils) if utils else Utilization(0, 0), over the values of a detail map
RECURSIVE SumUtilization(_)
SumUtilization(items) ==
    IF items = <<>> THEN ZeroUtilization
    ELSE IF Len(items) = 1 THEN items[1].util
    ELSE UtilizationAdd(SumUtilization(SubSeq(items, 1, Len(items) - 1)),
                        items[Len(items)].util)

\* max(utils): the first item that no later item is greater than
RECURSIVE MaxUtilization(_)
MaxUtilization(items) ==
    IF Len(items) = 1 THEN items[1].util
    ELSE LET best == MaxUtilization(SubSeq(items, 1, Len(items) - 1))
         IN IF UtilizationGt(items[Len(items)].util, best)
            THEN items[Len(items)].util ELSE best

SetMax(S) == CHOOSE x \in S : \A y \in S : y <= x

SetMin(S) == CHOOSE x \in S : \A y \in S : x <= y


(***************************************************************************)
(* Graph IR.  A node carries its op type, the element count of its output  *)
(* tensor, its activation quantization (enabled flag, the n_bits of its    *)
(* candidates), its weight attributes in layer order (element count,       *)
(* enabled flag, the n_bits of the attribute's candidates), its reuse flag *)
(* and group, and the MAC count the framework implementation reports.      *)
(***************************************************************************)
NoWeights == [a \in {} |-> 0]

WeightAttr(size, enabled, bits) == [size |-> size, enabled |-> enabled, bits |-> bits]

ConvWeights(kernel, bias) == [a \in {"kernel", "bias"} |-> IF a = "kernel" THEN kernel ELSE bias]

InputNode ==
    [type |-> "Input", out |-> 3, actEnabled |-> TRUE, actBits |-> {8},
     attr_names |-> <<>>, weights |-> NoWeights,
     reuse |-> FALSE, reuse_group |-> "none", mac |-> 0]

ReluNode ==
    [type |-> "Relu", out |-> 5, actEnabled |-> TRUE, actBits |-> {6, 8},
     attr_names |-> <<>>, weights |-> NoWeights,
     reuse |-> FALSE, reuse_group |-> "none", mac |-> 0]

ConvNode ==
    [type |-> "Conv", out |-> 4, actEnabled |-> TRUE, actBits |-> {8},
     attr_names |-> <<"kernel", "bias">>,
     weights |-> ConvWeights(WeightAttr(6, TRUE, {4, 8}), WeightAttr(2, FALSE, {8})),
     reuse |-> FALSE, reuse_group |-> "none", mac |-> 10]

SharedConvNode ==
    [type |-> "Conv", out |-> 1, actEnabled |-> FALSE, actBits |-> {8},
     attr_names |-> <<"kernel", "bias">>,
     weights |-> ConvWeights(WeightAttr(3, TRUE, {8}), WeightAttr(1, TRUE, {8})),
     reuse |-> FALSE, reuse_group |-> "shared", mac |-> 2]

ReusedConvNode == [SharedConvNode EXCEPT !.reuse = TRUE]

\* a convolution whose kernel is not quantized and whose bias is
BiasQuantConvNode ==
    [ConvNode EXCEPT !.weights = ConvWeights(WeightAttr(6, FALSE, {8}), WeightAttr(2, TRUE, {8}))]

SepConvWeights(depthwise, pointwise) ==
    [a \in {"depthwise_kernel", "pointwise_kernel"} |->
        IF a = "depthwise_kernel" THEN depthwise ELSE pointwise]

\* a node of an op type for which the framework info lists two kernel attributes
SepConvNode ==
    [type |-> "SepConv", out |-> 4, actEnabled |-> TRUE, actBits |-> {8},
     attr_names |-> <<"depthwise_kernel", "pointwise_kernel">>,
     weights |-> SepConvWeights(WeightAttr(6, TRUE, {4, 8}), WeightAttr(2, TRUE, {8})),
     reuse |-> FALSE, reuse_group |-> "none", mac |-> 10]

SingleKinds == {ConvNode, SepConvNode, BiasQuantConvNode}

NodeKinds ==
    {InputNode, ReluNode, ConvNode, SepConvNode, BiasQuantConvNode, SharedConvNode,
     ReusedConvNode}

\* The wirings of the graphs: a chain; a chain with a skip connection from
\* every node to the next but one (nodes fed by two edges); a chain whose last
\* node is fed by no edge (its input is a constant); a chain that runs through
\* the last node of graph.nodes before the last but one, so that graph.nodes
\* is not in topological order.
Wirings == {"chain", "skip", "const", "swapped"}

\* graph.nodes lists the nodes 1..N, the topological order lists them along
\* the edges.  max_cut
\* tells whether the max-cut search finds cuts for the graph (it gives up on
\* some graphs and returns None).
WiredGraph(nodes, wiring, max_cut) ==
    [nodes |-> nodes,
     topo  |-> [i \in 1..Len(nodes) |->
                  IF wiring = "swapped" /\ i = Len(nodes) - 1 THEN Len(nodes)
                  ELSE IF wiring = "swapped" /\ i = Len(nodes) THEN Len(nodes) - 1
                  ELSE i],
     edges |-> CASE wiring = "chain" -> {<<i, i + 1>> : i \in 1..(Len(nodes) - 1)}
                 [] wiring = "skip"  -> {<<i, i + 1>> : i \in 1..(Len(nodes) - 1)}
                                            \cup {<<i, i + 2>> : i \in 1..(Len(nodes) - 2)}
                 [] wiring = "const" -> {<<i, i + 1>> : i \in 1..(Len(nodes) - 2)}
                 [] wiring = "swapped" ->
                        {<<i, i + 1>> : i \in 1..(Len(nodes) - 3)}
                            \cup {<<Len(nodes) - 2, Len(nodes)>>,
                                  <<Len(nodes), Len(nodes) - 1>>},
     max_cut |-> max_cut]

\* The graph starts at its input node, its only one.  reuse => reuse_group is
\* set, and the first node of a reuse group, and only it, is not flagged reuse.
\* A graph holds at most one Relu and at most one node of SingleKinds.
WellFormed(nodes) ==
    /\ \A i \in 1..Len(nodes) : (nodes[i].type = "Input") <=> (i = 1)
    /\ \A i, j \in 1..Len(nodes) :
          i < j => /\ ~(nodes[i] = ReluNode /\ nodes[j] = ReluNode)
                   /\ ~(nodes[i] \in SingleKinds /\ nodes[j] \in SingleKinds)
    /\ \A i \in 1..Len(nodes) : nodes[i].reuse =>
          \E j \in 1..(i - 1) : /\ nodes[j].reuse_group = nodes[i].reuse_group
                                /\ ~nodes[j].reuse
    /\ \A i, j \in 1..Len(nodes) :
          (i < j /\ nodes[i].reuse_group # "none"
                 /\ nodes[i].reuse_group = nodes[j].reuse_group) => nodes[j].reuse

\* The wirings and max-cut outcomes a node sequence is set up with: the
\* max-cut search fails on chains of at most two nodes only, a skip connection
\* needs three nodes and
\* a constant input two, a swapped order three nodes with a SharedConvNode,
\* graphs with a ConvNode are chains with cuts, swapped or have
\* skip connections, graphs with a SepConvNode are chains without cuts or have
\* a constant input, graphs with a BiasQuantConvNode are chains with cuts.
Setups(nodes) ==
    {su \in [wiring : Wirings, max_cut : BOOLEAN] :
        /\ ~su.max_cut => su.wiring = "chain" /\ Len(nodes) <= 2
        /\ su.wiring = "skip" => Len(nodes) >= 3
        /\ su.wiring = "const" => Len(nodes) >= 2
        /\ su.wiring = "swapped" =>
              /\ Len(nodes) >= 3
              /\ \E i \in 1..Len(nodes) : nodes[i] = SharedConvNode
        /\ (\E i \in 1..Len(nodes) : nodes[i] = ConvNode)
              => su.max_cut /\ su.wiring \in {"chain", "skip", "swapped"}
        /\ (\E i \in 1..Len(nodes) : nodes[i] = SepConvNode)
              => (~su.max_cut \/ su.wiring = "const")
        /\ (\E i \in 1..Len(nodes) : nodes[i] = BiasQuantConvNode)
              => su.max_cut /\ su.wiring = "chain"}

NodeSequences ==
    {s \in UNION {[1..k -> NodeKinds] : k \in 1..MaxNodes} : WellFormed(s)}

Graphs ==
    UNION {{WiredGraph(nodes, su.wiring, su.max_cut) : su \in Setups(nodes)} :
              nodes \in NodeSequences}

NodeIds(g) == 1..Len(g.nodes)

\* graph.incoming_edges(n, sort_by_attr=EDGE_SINK_INDEX): the source nodes
IncomingSources(g, n) == {e[1] : e \in {x \in g.edges : x[2] = n}}

Consumers(g, n) == {e[2] : e \in {x \in g.edges : x[1] = n}}

\* position of node n in the topological order
TopoPos(g, n) == CHOOSE k \in 1..Len(g.topo) : g.topo[k] = n

(***************************************************************************)
(* BaseNode accessors and the framework collaborators.                     *)
(***************************************************************************)
IsActivationQuantizationEnabled(node) == node.actEnabled

GetUniqueActivationCandidates(node) == node.actBits

HasConfigurableActivation(node) ==
    node.actEnabled /\ Cardinality(node.actBits) > 1

GetNodeWeightsAttributes(node) == node.attr_names

HasWeightAttr(node, attr) == attr \in DOMAIN node.weights

IsWeightsQuantizationEnabled(node, attr) ==
    HasWeightAttr(node, attr) /\ node.weights[attr].enabled

GetUniqueWeightsCandidates(node, attr) == node.weights[attr].bits

IsConfigurableWeight(node, attr) ==
    IsWeightsQuantizationEnabled(node, attr) /\ Cardinality(node.weights[attr].bits) > 1

\* fw_info.get_kernel_op_attributes(n.type)
GetKernelOpAttributes(type) ==
    CASE type = "Conv"    -> <<"kernel">>
      [] type = "SepConv" -> <<"depthwise_kernel", "pointwise_kernel">>
      [] OTHER            -> <<>>

HasKernelWeightToQuantize(node) ==
    \E i \in 1..Len(GetKernelOpAttributes(node.type)) :
        IsWeightsQuantizationEnabled(node, GetKernelOpAttributes(node.type)[i])

\* fw_impl.get_node_mac_operations(n, fw_info)
GetNodeMacOperations(node) == node.mac

(***************************************************************************)
(* Custom quantization configurations.  act_qcs maps nodes to              *)
(* [n_bits, enable]; w_qcs maps nodes to a map from weight attributes to   *)
(* [n_bits, enable].  None and the empty dict are both falsy and are the   *)
(* empty map.  qcs.get(n) is a sequence holding the entry, or <<>> (None). *)
(***************************************************************************)
NoQcs == <<>>

Truthy(qcs) == DOMAIN qcs # {}

QcsGet(qcs, n) == IF Truthy(qcs) /\ n \in DOMAIN qcs THEN <<qcs[n]>> ELSE <<>>

QCfg(n_bits, enable) == [n_bits |-> n_bits, enable |-> enable]

(***************************************************************************)
(* _get_activation_nbits                                                   *)
(***************************************************************************)
\* _bitwidth_mode_fn as it would be with max and min exchanged
BitwidthModeFn_Swapped(mode, nbits) == IF mode = "QMaxBit" THEN SetMin(nbits) ELSE SetMax(nbits)

\* _bitwidth_mode_fn: QMaxBit -> max, QMinBit -> min
BitwidthModeFn(mode, nbits) == IF mode = "QMaxBit" THEN SetMax(nbits) ELSE SetMin(nbits)

\* the resolution as it would be if a custom configuration always gave its n_bits
GetActivationNbits_IgnoresEnable(node, bitwidth_mode, act_qc) ==
    IF act_qc # <<>>
    THEN IF bitwidth_mode # "QCustom" THEN Raise("AssertCustomMode", 0)
         ELSE Ret(act_qc[1].n_bits)
    ELSE IF bitwidth_mode = "Float" \/ ~IsActivationQuantizationEnabled(node)
    THEN Ret(FLOAT_BITWIDTH)
    ELSE IF bitwidth_mode = "Q8Bit"
    THEN Ret(8)
    ELSE IF bitwidth_mode \in {"QMaxBit", "QMinBit"}
    THEN Ret(BitwidthModeFn(bitwidth_mode, node.actBits))
    ELSE IF bitwidth_mode \in {"QCustom", "QDefaultSP"}
    THEN LET qcs == GetUniqueActivationCandidates(node)
         IN IF Cardinality(qcs) # 1 THEN Raise("AmbiguousActivation", 0)
            ELSE Ret(CHOOSE b \in qcs : TRUE)
    ELSE Raise("UnknownMode", 0)

\* the resolution as it would be if Q8Bit were looked at before the disabled
\* quantization of the node
GetActivationNbits_Q8BitFirst(node, bitwidth_mode, act_qc) ==
    IF act_qc # <<>>
    THEN IF bitwidth_mode # "QCustom" THEN Raise("AssertCustomMode", 0)
         ELSE Ret(IF act_qc[1].enable THEN act_qc[1].n_bits ELSE FLOAT_BITWIDTH)
    ELSE IF bitwidth_mode = "Q8Bit"
    THEN Ret(8)
    ELSE IF bitwidth_mode = "Float" \/ ~IsActivationQuantizationEnabled(node)
    THEN Ret(FLOAT_BITWIDTH)
    ELSE IF bitwidth_mode \in {"QMaxBit", "QMinBit"}
    THEN Ret(BitwidthModeFn(bitwidth_mode, node.actBits))
    ELSE IF bitwidth_mode \in {"QCustom", "QDefaultSP"}
    THEN LET qcs == GetUniqueActivationCandidates(node)
         IN IF Cardinality(qcs) # 1 THEN Raise("AmbiguousActivation", 0)
            ELSE Ret(CHOOSE b \in qcs : TRUE)
    ELSE Raise("UnknownMode", 0)

\* the resolution as it would be if several unique candidates gave the largest
GetActivationNbits_AmbiguousTakesMax(node, bitwidth_mode, act_qc) ==
    IF act_qc # <<>>
    THEN IF bitwidth_mode # "QCustom" THEN Raise("AssertCustomMode", 0)
         ELSE Ret(IF act_qc[1].enable THEN act_qc[1].n_bits ELSE FLOAT_BITWIDTH)
    ELSE IF bitwidth_mode = "Float" \/ ~IsActivationQuantizationEnabled(node)
    THEN Ret(FLOAT_BITWIDTH)
    ELSE IF bitwidth_mode = "Q8Bit"
    THEN Ret(8)
    ELSE IF bitwidth_mode \in {"QMaxBit", "QMinBit"}
    THEN Ret(BitwidthModeFn(bitwidth_mode, node.actBits))
    ELSE IF bitwidth_mode \in {"QCustom", "QDefaultSP"}
    THEN LET qcs == GetUniqueActivationCandidates(node)
         IN IF Cardinality(qcs) # 1 THEN Ret(SetMax(qcs))
            ELSE Ret(CHOOSE b \in qcs : TRUE)
    ELSE Raise("UnknownMode", 0)

\* _get_activation_nbits; act_qc = <<>> is None
GetActivationNbits(node, bitwidth_mode, act_qc) ==
    IF act_qc # <<>>
    THEN IF bitwidth_mode # "QCustom" THEN Raise("AssertCustomMode", 0)
         ELSE Ret(IF act_qc[1].enable THEN act_qc[1].n_bits ELSE FLOAT_BITWIDTH)
    ELSE IF bitwidth_mode = "Float" \/ ~IsActivationQuantizationEnabled(node)
    THEN Ret(FLOAT_BITWIDTH)
    ELSE IF bitwidth_mode = "Q8Bit"
    THEN Ret(8)
    ELSE IF bitwidth_mode \in {"QMaxBit", "QMinBit"}
    THEN Ret(BitwidthModeFn(bitwidth_mode, node.actBits))
    ELSE IF bitwidth_mode \in {"QCustom", "QDefaultSP"}
    THEN LET qcs == GetUniqueActivationCandidates(node)
         IN IF Cardinality(qcs) # 1 THEN Raise("AmbiguousActivation", 0)
            ELSE Ret(CHOOSE b \in qcs : TRUE)
    ELSE Raise("UnknownMode", 0)

(***************************************************************************)
(* _get_weight_nbits                                                       *)
(***************************************************************************)
\* the resolution as it would be if the candidates were those of all the
\* node's attributes, not of the named one
GetWeightNbits_NodeWideCandidates(node, w_attr, bitwidth_mode, w_qc) ==
    IF w_qc # <<>> /\ bitwidth_mode # "QCustom"
    THEN Raise("AssertCustomMode", 0)
    ELSE IF w_qc # <<>> /\ w_attr \in DOMAIN w_qc[1]
    THEN Ret(IF w_qc[1][w_attr].enable THEN w_qc[1][w_attr].n_bits ELSE FLOAT_BITWIDTH)
    ELSE IF bitwidth_mode = "Float" \/ ~IsWeightsQuantizationEnabled(node, w_attr)
    THEN Ret(FLOAT_BITWIDTH)
    ELSE IF bitwidth_mode = "Q8Bit"
    THEN Ret(8)
    ELSE LET w_qcs == UNION {GetUniqueWeightsCandidates(node, a) : a \in DOMAIN node.weights}
         IN IF bitwidth_mode \in {"QMaxBit", "QMinBit"}
            THEN Ret(BitwidthModeFn(bitwidth_mode, w_qcs))
            ELSE IF bitwidth_mode \in {"QCustom", "QDefaultSP"}
            THEN IF Cardinality(w_qcs) # 1 THEN Raise("AmbiguousWeight", 0)
                 ELSE Ret(CHOOSE b \in w_qcs : TRUE)
            ELSE IF HasName(bitwidth_mode) THEN Raise("UnknownMode", 0)
            ELSE Raise("AttributeError", 0)

\* the resolution as it would be if mode Float took the smallest candidate of
\* a quantized attribute
GetWeightNbits_FloatTakesMin(node, w_attr, bitwidth_mode, w_qc) ==
    IF w_qc # <<>> /\ bitwidth_mode # "QCustom"
    THEN Raise("AssertCustomMode", 0)
    ELSE IF w_qc # <<>> /\ w_attr \in DOMAIN w_qc[1]
    THEN Ret(IF w_qc[1][w_attr].enable THEN w_qc[1][w_attr].n_bits ELSE FLOAT_BITWIDTH)
    ELSE IF ~IsWeightsQuantizationEnabled(node, w_attr)
    THEN Ret(FLOAT_BITWIDTH)
    ELSE IF bitwidth_mode = "Q8Bit"
    THEN Ret(8)
    ELSE LET w_qcs == GetUniqueWeightsCandidates(node, w_attr)
         IN IF bitwidth_mode \in {"QMaxBit", "QMinBit", "Float"}
            THEN Ret(BitwidthModeFn(bitwidth_mode, w_qcs))
            ELSE IF bitwidth_mode \in {"QCustom", "QDefaultSP"}
            THEN IF Cardinality(w_qcs) # 1 THEN Raise("AmbiguousWeight", 0)
                 ELSE Ret(CHOOSE b \in w_qcs : TRUE)
            ELSE IF HasName(bitwidth_mode) THEN Raise("UnknownMode", 0)
            ELSE Raise("AttributeError", 0)

\* _get_weight_nbits; w_qc = <<>> is None
GetWeightNbits(node, w_attr, bitwidth_mode, w_qc) ==
    IF w_qc # <<>> /\ bitwidth_mode # "QCustom"
    THEN Raise("AssertCustomMode", 0)
    ELSE IF w_qc # <<>> /\ w_attr \in DOMAIN w_qc[1]
    THEN Ret(IF w_qc[1][w_attr].enable THEN w_qc[1][w_attr].n_bits ELSE FLOAT_BITWIDTH)
    ELSE IF bitwidth_mode = "Float" \/ ~IsWeightsQuantizationEnabled(node, w_attr)
    THEN Ret(FLOAT_BITWIDTH)
    ELSE IF bitwidth_mode = "Q8Bit"
    THEN Ret(8)
    ELSE LET w_qcs == GetUniqueWeightsCandidates(node, w_attr)
         IN IF bitwidth_mode \in {"QMaxBit", "QMinBit"}
            THEN Ret(BitwidthModeFn(bitwidth_mode, w_qcs))
            ELSE IF bitwidth_mode \in {"QCustom", "QDefaultSP"}
            THEN IF Cardinality(w_qcs) # 1 THEN Raise("AmbiguousWeight", 0)
                 ELSE Ret(CHOOSE b \in w_qcs : TRUE)
            ELSE IF HasName(bitwidth_mode) THEN Raise("UnknownMode", 0)
            ELSE Raise("AttributeError", 0)

(***************************************************************************)
(* Target selection.                                                       *)
(***************************************************************************)
\* the selection of weight attributes as it would be if QNonConfigurable took
\* every quantized attribute
GetTargetWeightAttrs_AllQuantized(node, target_criterion) ==
    LET weight_attrs == GetNodeWeightsAttributes(node)
        Quantized(attr) == IsWeightsQuantizationEnabled(node, attr)
    IN IF target_criterion \in {"QConfigurable", "AnyQuantized", "QNonConfigurable"}
       THEN SelectSeq(weight_attrs, Quantized)
       ELSE weight_attrs

\* the selection as it would be if QNonConfigurable kept every attribute that
\* is not configurable, quantized or not
GetTargetWeightAttrs_NonConfigurableUnquantized(node, target_criterion) ==
    LET weight_attrs == GetNodeWeightsAttributes(node)
        Configurable(attr) == IsConfigurableWeight(node, attr)
        Quantized(attr) == IsWeightsQuantizationEnabled(node, attr)
        NonConfigurable(attr) == ~Configurable(attr)
    IN CASE target_criterion = "QConfigurable"    -> SelectSeq(weight_attrs, Configurable)
         [] target_criterion = "AnyQuantized"     -> SelectSeq(weight_attrs, Quantized)
         [] target_criterion = "QNonConfigurable" -> SelectSeq(weight_attrs, NonConfigurable)
         [] target_criterion = "Any"              -> weight_attrs

\* _get_target_weight_attrs, for the members of TargetInclusionCriterion (for
\* any other value the code raises ValueError, and the operator has no value)
GetTargetWeightAttrs(node, target_criterion) ==
    LET weight_attrs == GetNodeWeightsAttributes(node)
        Configurable(attr) == IsConfigurableWeight(node, attr)
        Quantized(attr) == IsWeightsQuantizationEnabled(node, attr)
        NonConfigurable(attr) == Quantized(attr) /\ ~Configurable(attr)
    IN CASE target_criterion = "QConfigurable"    -> SelectSeq(weight_attrs, Configurable)
         [] target_criterion = "AnyQuantized"     -> SelectSeq(weight_attrs, Quantized)
         [] target_criterion = "QNonConfigurable" -> SelectSeq(weight_attrs, NonConfigurable)
         [] target_criterion = "Any"              -> weight_attrs

\* the collection of weight nodes as it would be if it never looked at reuse
CollectTargetNodesWAttrs_WithReused(g, target_criterion, include_reused) ==
    LET Keep(n) == GetTargetWeightAttrs(g.nodes[n], target_criterion) # <<>>
    IN SelectSeq([i \in 1..Len(g.nodes) |-> i], Keep)

\* _collect_target_nodes_w_attrs: the keys of nodes_attrs, in graph.nodes order
CollectTargetNodesWAttrs(g, target_criterion, include_reused) ==
    LET Keep(n) == /\ GetTargetWeightAttrs(g.nodes[n], target_criterion) # <<>>
                   /\ (include_reused \/ ~g.nodes[n].reuse)
    IN SelectSeq([i \in 1..Len(g.nodes) |-> i], Keep)

\* _topo_sort as it would be if it returned the nodes in the order given
TopoSort_OrderGiven(g, nodes) ==
    IF nodes = <<>> THEN Ret(nodes)
    ELSE LET In(n) == \E i \in 1..Len(nodes) : nodes[i] = n
             topo_nodes == SelectSeq(g.topo, In)
         IN IF Len(topo_nodes) # Len(nodes) THEN Raise("TopoSort", <<>>)
            ELSE Ret(nodes)

\* _topo_sort
TopoSort(g, nodes) ==
    IF nodes = <<>> THEN Ret(nodes)
    ELSE LET In(n) == \E i \in 1..Len(nodes) : nodes[i] = n
             topo_nodes == SelectSeq(g.topo, In)
         IN IF Len(topo_nodes) # Len(nodes) THEN Raise("TopoSort", <<>>)
            ELSE Ret(topo_nodes)

\* _get_target_activation_nodes; nodes = <<>> stands for None (and for an
\* empty list, which `nodes or self.graph.nodes` treats alike)
\* The criterion is a member of TargetInclusionCriterion (for any other value
\* the code raises ValueError, and the operator has no value).
GetTargetActivationNodes(g, target_criterion, include_reused, nodes) ==
    LET all == IF nodes # <<>> THEN nodes ELSE [i \in 1..Len(g.nodes) |-> i]
        Configurable(n) == HasConfigurableActivation(g.nodes[n])
        Quantized(n) == IsActivationQuantizationEnabled(g.nodes[n])
        NonConfigurable(n) == Quantized(n) /\ ~Configurable(n)
        NotReused(n) == ~g.nodes[n].reuse
        selected == CASE target_criterion = "QConfigurable"    -> SelectSeq(all, Configurable)
                      [] target_criterion = "AnyQuantized"     -> SelectSeq(all, Quantized)
                      [] target_criterion = "QNonConfigurable" -> SelectSeq(all, NonConfigurable)
                      [] target_criterion = "Any"              -> all
    IN IF include_reused THEN selected ELSE SelectSeq(selected, NotReused)

(***************************************************************************)
(* Weights utilization.                                                    *)
(***************************************************************************)
\* the target of compute_node_weights_utilization: a criterion or an explicit list
ByCriterion(c) == [isCriterion |-> TRUE, criterion |-> c, attrs |-> <<>>]

ByAttrs(attrs) == [isCriterion |-> FALSE, criterion |-> "none", attrs |-> attrs]

NoNodeWeights == [total |-> ZeroUtilization, attr_util |-> <<>>]

\* the loop of compute_node_weights_utilization over weight_attrs
RECURSIVE NodeWeightsLoop(_, _, _, _, _, _)
NodeWeightsLoop(node, weight_attrs, bitwidth_mode, qc, i, attr_util) ==
    LET Step(attr, nbits) ==
            IF Failed(nbits) THEN Raise(nbits.err, <<>>)
            ELSE NodeWeightsLoop(node, weight_attrs, bitwidth_mode, qc, i + 1,
                    DictAssign(attr_util,
                           [key |-> attr,
                            util |-> Utilization(node.weights[attr].size,
                                                 BytesOf(node.weights[attr].size * nbits.val))]))
    IN IF i > Len(weight_attrs) THEN Ret(attr_util)
       ELSE IF ~HasWeightAttr(node, weight_attrs[i]) THEN Raise("KeyError", <<>>)
       ELSE Step(weight_attrs[i], GetWeightNbits(node, weight_attrs[i], bitwidth_mode, qc))

\* the node's weights utilization as it would be if the attributes of the
\* custom configuration were not compared with the node's
ComputeNodeWeightsUtilization_NoAttrsCheck(node, target_criterion, bitwidth_mode, qc) ==
    LET Total(loop) ==
            IF Failed(loop) THEN Raise(loop.err, NoNodeWeights)
            ELSE Ret([total |-> SumUtilization(loop.val), attr_util |-> loop.val])
    IN IF qc # <<>> /\ bitwidth_mode # "QCustom"
       THEN Raise("UnexpectedQc", NoNodeWeights)
       ELSE IF ~target_criterion.isCriterion /\ target_criterion.attrs = <<>>
       THEN Raise("EmptyAttrList", NoNodeWeights)
       ELSE Total(NodeWeightsLoop(node,
                     IF target_criterion.isCriterion
                     THEN GetTargetWeightAttrs(node, target_criterion.criterion)
                     ELSE target_criterion.attrs,
                     bitwidth_mode, qc, 1, <<>>))

\* compute_node_weights_utilization
ComputeNodeWeightsUtilization(node, target_criterion, bitwidth_mode, qc) ==
    LET Total(loop) ==
            IF Failed(loop) THEN Raise(loop.err, NoNodeWeights)
            ELSE Ret([total |-> SumUtilization(loop.val), attr_util |-> loop.val])
    IN IF qc # <<>> /\ bitwidth_mode # "QCustom"
       THEN Raise("UnexpectedQc", NoNodeWeights)
       ELSE IF qc # <<>> /\ (DOMAIN qc[1]) \ (DOMAIN node.weights) # {}
       THEN Raise("UnexpectedWeightAttrs", NoNodeWeights)
       ELSE IF ~target_criterion.isCriterion /\ target_criterion.attrs = <<>>
       THEN Raise("EmptyAttrList", NoNodeWeights)
       ELSE Total(NodeWeightsLoop(node,
                     IF target_criterion.isCriterion
                     THEN GetTargetWeightAttrs(node, target_criterion.criterion)
                     ELSE target_criterion.attrs,
                     bitwidth_mode, qc, 1, <<>>))

NoWeightsUtilization ==
    [total |-> ZeroBytes, util_per_node |-> <<>>, util_per_node_per_weight |-> <<>>]

\* the loop of compute_weights_utilization over the topo-sorted target nodes
RECURSIVE WeightsLoop(_, _, _, _, _, _, _)
WeightsLoop(g, nodes, target_criterion, bitwidth_mode, w_qcs, i, acc) ==
    LET Step(n, r) ==
            IF Failed(r) THEN Raise(r.err, <<>>)
            ELSE WeightsLoop(g, nodes, target_criterion, bitwidth_mode, w_qcs, i + 1,
                    Append(acc, [key |-> n, util |-> r.val.total,
                                 per_weight |-> r.val.attr_util]))
    IN IF i > Len(nodes) THEN Ret(acc)
       ELSE Step(nodes[i],
                 ComputeNodeWeightsUtilization(
                     g.nodes[nodes[i]],
                     ByAttrs(GetTargetWeightAttrs(g.nodes[nodes[i]], target_criterion)),
                     bitwidth_mode, QcsGet(w_qcs, nodes[i])))

\* compute_weights_utilization
ComputeWeightsUtilization(g, target_criterion, bitwidth_mode, w_qcs) ==
    LET Total(loop) ==
            IF Failed(loop) THEN Raise(loop.err, NoWeightsUtilization)
            ELSE Ret([total |-> SumUtilization(loop.val).bytes,
                      util_per_node |->
                          [k \in 1..Len(loop.val) |->
                              [key |-> loop.val[k].key, util |-> loop.val[k].util]],
                      util_per_node_per_weight |->
                          [k \in 1..Len(loop.val) |->
                              [key |-> loop.val[k].key, util |-> loop.val[k].per_weight]]])
        Sorted(sorted) ==
            IF Failed(sorted) THEN Raise(sorted.err, NoWeightsUtilization)
            ELSE Total(WeightsLoop(g, sorted.val, target_criterion, bitwidth_mode,
                                   w_qcs, 1, <<>>))
    IN IF Truthy(w_qcs) /\ bitwidth_mode # "QCustom"
       THEN Raise("UnexpectedQc", NoWeightsUtilization)
       ELSE Sorted(TopoSort(g, CollectTargetNodesWAttrs(g, target_criterion, FALSE)))

(***************************************************************************)
(* Cuts.  The memory graph and the max-cut sweep: one operator step per    *)
(* node in topological order; a node's output tensor is live at step k if  *)
(* it was produced at a step <= k and is consumed at a step >= k (a tensor *)
(* nobody consumes is consumed by the exit sentinel, after the last step). *)
(* A cut is the sequence of its memory elements, each named by its node.   *)
(* The step of the entry sentinel comes first: no tensor of the graph is   *)
(* live there, and its cut has no memory element.                          *)
(***************************************************************************)
\* a node's name: the nodes of a graph have distinct names
NodeName(n) == <<"node", n>>

\* graph.find_node_by_name: the nodes of that name, in the order of graph.nodes
FindNodeByName(g, name) ==
    LET Named(n) == NodeName(n) = name
    IN SelectSeq([i \in 1..Len(g.nodes) |-> i], Named)

\* the memory element of the output tensor of node n
MemoryElement(g, n) == [node_name |-> NodeName(n), total_size |-> g.nodes[n].out]

LiveAt(g, n, k) ==
    /\ TopoPos(g, n) <= k
    /\ \/ Consumers(g, n) = {}
       \/ \E c \in Consumers(g, n) : TopoPos(g, c) >= k

\* _compute_cuts: compute_graph_max_cut(MemoryGraph(deepcopy(self.graph))),
\* the cuts found or None
ComputeCuts(g) ==
    IF ~g.max_cut THEN [none |-> TRUE, cuts |-> <<>>]
    ELSE [none |-> FALSE,
          cuts |-> <<<<>>>> \o
                   [k \in 1..Len(g.topo) |->
                      LET Live(n) == LiveAt(g, n, k)
                          Elements(live) == [i \in 1..Len(live) |-> MemoryElement(g, live[i])]
                      IN Elements(SelectSeq(g.topo, Live))]]

NoCuts == [filled |-> FALSE, cuts |-> <<>>]

\* Cut.__eq__: two cuts are equal when they hold the same memory elements
SameCut(a, b) == {a[i] : i \in 1..Len(a)} = {b[i] : i \in 1..Len(b)}

\* self._cuts as it would be if the cuts without memory elements were kept
CutsCache_KeepsEmpty(g, cuts) ==
    LET Nodes(cut) ==
            [i \in 1..Len(cut) |-> FindNodeByName(g, cut[i].node_name)[1]]
        Kept(kept) ==
            LET First(k) == \A j \in 1..(k - 1) : ~SameCut(kept[j], kept[k])
                Last(k) == CHOOSE j \in k..Len(kept) :
                              /\ SameCut(kept[j], kept[k])
                              /\ \A l \in (j + 1)..Len(kept) : ~SameCut(kept[l], kept[k])
                Keys(keys) ==
                    [i \in 1..Len(keys) |-> [cut |-> kept[keys[i]],
                                             nodes |-> Nodes(kept[Last(keys[i])])]]
            IN [filled |-> TRUE,
                cuts |-> Keys(SelectSeq([k \in 1..Len(kept) |-> k], First))]
    IN Kept(cuts)

\* self._cuts as the cuts property builds it from the cuts computed: a dict
\* over the cuts with memory elements, each mapped to the nodes its elements
\* name.  A cut equal to an earlier one adds no entry: the earlier key keeps
\* its place and takes the nodes resolved for the later cut.
CutsCache(g, cuts) ==
    LET NonEmpty(cut) == cut # <<>>
        Nodes(cut) ==
            [i \in 1..Len(cut) |-> FindNodeByName(g, cut[i].node_name)[1]]
        Kept(kept) ==
            LET First(k) == \A j \in 1..(k - 1) : ~SameCut(kept[j], kept[k])
                Last(k) == CHOOSE j \in k..Len(kept) :
                              /\ SameCut(kept[j], kept[k])
                              /\ \A l \in (j + 1)..Len(kept) : ~SameCut(kept[l], kept[k])
                Keys(keys) ==
                    [i \in 1..Len(keys) |-> [cut |-> kept[keys[i]],
                                             nodes |-> Nodes(kept[Last(keys[i])])]]
            IN [filled |-> TRUE,
                cuts |-> Keys(SelectSeq([k \in 1..Len(kept) |-> k], First))]
    IN Kept(SelectSeq(cuts, NonEmpty))

\* the cuts property as it would be if a read of the filled cache lost its
\* last cut
CutsProperty_ForgetsLastCut(g, c) ==
    LET Computed(cuts) ==
            IF cuts.none THEN Raise("CutComputationFailed", c)
            ELSE Ret(CutsCache(g, cuts.cuts))
    IN IF ~c.filled THEN Computed(ComputeCuts(g)) ELSE Ret([c EXCEPT !.cuts = SubSeq(c.cuts, 1, Len(c.cuts) - 1)])

\* the cuts property as it would be if a read of the filled cache marked it
\* unset again
CutsProperty_Invalidates(g, c) ==
    LET Computed(cuts) ==
            IF cuts.none THEN Raise("CutComputationFailed", c)
            ELSE Ret(CutsCache(g, cuts.cuts))
    IN IF ~c.filled THEN Computed(ComputeCuts(g)) ELSE Ret([c EXCEPT !.filled = FALSE])

\* the cuts property as it would be if a computation that returns None were
\* cached as an empty dictionary
CutsProperty_NoneIsEmpty(g, c) ==
    LET Computed(cuts) ==
            IF cuts.none THEN Ret(CutsCache(g, <<>>))
            ELSE Ret(CutsCache(g, cuts.cuts))
    IN IF ~c.filled THEN Computed(ComputeCuts(g)) ELSE Ret(c)

\* the cuts property, applied to the cache c: the cache after the read, or
\* the RuntimeError with the cache left as it is
CutsProperty(g, c) ==
    LET Computed(cuts) ==
            IF cuts.none THEN Raise("CutComputationFailed", c)
            ELSE Ret(CutsCache(g, cuts.cuts))
    IN IF ~c.filled THEN Computed(ComputeCuts(g)) ELSE Ret(c)

(***************************************************************************)
(* Activation utilization.                                                 *)
(***************************************************************************)
\* compute_node_activation_tensor_utilization; target_criterion "None" is None
ComputeNodeActivationTensorUtilization(g, n, target_criterion, bitwidth_mode, qc) ==
    LET Bytes(size, nbits) ==
            IF Failed(nbits) THEN Raise(nbits.err, ZeroUtilization)
            ELSE Ret(Utilization(size, BytesOf(size * nbits.val)))
    IN IF qc # <<>> /\ bitwidth_mode # "QCustom"
       THEN Raise("UnexpectedQc", ZeroUtilization)
       ELSE IF target_criterion # "None"
               /\ GetTargetActivationNodes(g, target_criterion, TRUE, <<n>>) = <<>>
       THEN Ret(ZeroUtilization)
       ELSE Bytes(g.nodes[n].out, GetActivationNbits(g.nodes[n], bitwidth_mode, qc))

\* _get_cut_target_nodes as it would be if it left the reused nodes out
GetCutTargetNodes_WithoutReused(g, c, k, target_criterion) ==
    GetTargetActivationNodes(g, target_criterion, FALSE, c.cuts[k].nodes)

\* _get_cut_target_nodes, on the filled cache
GetCutTargetNodes(g, c, k, target_criterion) ==
    GetTargetActivationNodes(g, target_criterion, TRUE, c.cuts[k].nodes)

\* the inner loop of compute_activation_utilization_by_cut over a cut's target nodes
RECURSIVE CutNodesLoop(_, _, _, _, _, _, _)
CutNodesLoop(g, nodes, target_criterion, bitwidth_mode, act_qcs, i, acc) ==
    LET Step(n, r) ==
            IF Failed(r) THEN Raise(r.err, <<>>)
            ELSE CutNodesLoop(g, nodes, target_criterion, bitwidth_mode, act_qcs, i + 1,
                              DictAssign(acc, [key |-> n, util |-> r.val]))
    IN IF i > Len(nodes) THEN Ret(acc)
       ELSE Step(nodes[i],
                 ComputeNodeActivationTensorUtilization(g, nodes[i], target_criterion,
                                                        bitwidth_mode, QcsGet(act_qcs, nodes[i])))

\* the outer loop of compute_activation_utilization_by_cut over self.cuts
RECURSIVE CutsLoop(_, _, _, _, _, _, _)
CutsLoop(g, c, target_criterion, bitwidth_mode, act_qcs, k, acc) ==
    LET Step(r) ==
            IF Failed(r) THEN Raise(r.err, <<>>)
            ELSE CutsLoop(g, c, target_criterion, bitwidth_mode, act_qcs, k + 1,
                          Append(acc, [key |-> c.cuts[k].cut,
                                       util |-> SumUtilization(r.val),
                                       per_node |-> r.val]))
        Targets(cut_target_nodes) ==
            IF cut_target_nodes = <<>>
            THEN CutsLoop(g, c, target_criterion, bitwidth_mode, act_qcs, k + 1, acc)
            ELSE Step(CutNodesLoop(g, cut_target_nodes, target_criterion,
                                   bitwidth_mode, act_qcs, 1, <<>>))
    IN IF k > Len(c.cuts) THEN Ret(acc)
       ELSE Targets(GetCutTargetNodes(g, c, k, target_criterion))

NoCutUtilization ==
    [total |-> ZeroBytes, util_per_cut |-> <<>>, util_per_cut_per_node |-> <<>>]

\* the result by cut as it would be if the total were the first cut's
ByCutResult_FirstCut(items) ==
    IF items = <<>> THEN Raise("EmptyMax", NoCutUtilization)
    ELSE Ret([total |-> items[1].util.bytes,
              util_per_cut |->
                  [k \in 1..Len(items) |-> [key |-> items[k].key, util |-> items[k].util]],
              util_per_cut_per_node |->
                  [k \in 1..Len(items) |-> [key |-> items[k].key, util |-> items[k].per_node]]])

\* total_util = max(util_per_cut.values()); return total_util.bytes, ...
ByCutResult(items) ==
    IF items = <<>> THEN Raise("EmptyMax", NoCutUtilization)
    ELSE Ret([total |-> MaxUtilization(items).bytes,
              util_per_cut |->
                  [k \in 1..Len(items) |-> [key |-> items[k].key, util |-> items[k].util]],
              util_per_cut_per_node |->
                  [k \in 1..Len(items) |-> [key |-> items[k].key, util |-> items[k].per_node]]])

\* compute_activation_utilization_by_cut as it would be if it read the cuts
\* before it looked for target nodes
ComputeActivationUtilizationByCut_CutsFirst(g, c, target_criterion, bitwidth_mode, act_qcs) ==
    LET Total(loop, filled) ==
            [res |-> IF Failed(loop) THEN Raise(loop.err, NoCutUtilization)
                     ELSE ByCutResult(loop.val),
             cache |-> filled]
        OverCuts(cuts) ==
            IF Failed(cuts)
            THEN [res |-> Raise(cuts.err, NoCutUtilization), cache |-> cuts.val]
            ELSE IF GetTargetActivationNodes(g, target_criterion, TRUE, <<>>) = <<>>
            THEN [res |-> Ret(NoCutUtilization), cache |-> cuts.val]
            ELSE Total(CutsLoop(g, cuts.val, target_criterion, bitwidth_mode, act_qcs,
                                1, <<>>),
                       cuts.val)
    IN IF Truthy(act_qcs) /\ bitwidth_mode # "QCustom"
       THEN [res |-> Raise("UnexpectedQc", NoCutUtilization), cache |-> c]
       ELSE OverCuts(CutsProperty(g, c))

\* compute_activation_utilization_by_cut: [res |-> what it returns or raises,
\* cache |-> self._cuts after the call]
ComputeActivationUtilizationByCut(g, c, target_criterion, bitwidth_mode, act_qcs) ==
    LET Total(loop, filled) ==
            [res |-> IF Failed(loop) THEN Raise(loop.err, NoCutUtilization)
                     ELSE ByCutResult(loop.val),
             cache |-> filled]
        OverCuts(cuts) ==
            IF Failed(cuts)
            THEN [res |-> Raise(cuts.err, NoCutUtilization), cache |-> cuts.val]
            ELSE Total(CutsLoop(g, cuts.val, target_criterion, bitwidth_mode, act_qcs,
                                1, <<>>),
                       cuts.val)
    IN IF Truthy(act_qcs) /\ bitwidth_mode # "QCustom"
       THEN [res |-> Raise("UnexpectedQc", NoCutUtilization), cache |-> c]
       ELSE IF GetTargetActivationNodes(g, target_criterion, TRUE, <<>>) = <<>>
       THEN [res |-> Ret(NoCutUtilization), cache |-> c]
       ELSE OverCuts(CutsProperty(g, c))

\* compute_activations_utilization
ComputeActivationsUtilization(g, c, target_criterion, bitwidth_mode, act_qcs) ==
    LET First(r) == [res |-> [err |-> r.res.err, val |-> r.res.val.total], cache |-> r.cache]
    IN First(ComputeActivationUtilizationByCut(g, c, target_criterion, bitwidth_mode, act_qcs))

\* the loop of compute_activation_tensors_utilization over the topo-sorted nodes
RECURSIVE TensorsLoop(_, _, _, _, _, _)
TensorsLoop(g, nodes, bitwidth_mode, act_qcs, i, acc) ==
    LET Step(n, r) ==
            IF Failed(r) THEN Raise(r.err, <<>>)
            ELSE TensorsLoop(g, nodes, bitwidth_mode, act_qcs, i + 1,
                             Append(acc, [key |-> n, util |-> r.val]))
    IN IF i > Len(nodes) THEN Ret(acc)
       ELSE Step(nodes[i],
                 ComputeNodeActivationTensorUtilization(g, nodes[i], "None", bitwidth_mode,
                                                        QcsGet(act_qcs, nodes[i])))

NoTensorsUtilization == [total |-> ZeroBytes, util_per_node |-> <<>>]

\* compute_activation_tensors_utilization
ComputeActivationTensorsUtilization(g, target_criterion, bitwidth_mode, act_qcs, include_reused) ==
    LET Total(loop) ==
            IF Failed(loop) THEN Raise(loop.err, NoTensorsUtilization)
            ELSE Ret([total |-> IF loop.val # <<>>
                                THEN MaxUtilization(loop.val).bytes ELSE ZeroBytes,
                      util_per_node |-> loop.val])
        Sorted(sorted) ==
            IF Failed(sorted) THEN Raise(sorted.err, NoTensorsUtilization)
            ELSE Total(TensorsLoop(g, sorted.val, bitwidth_mode, act_qcs, 1, <<>>))
    IN IF Truthy(act_qcs) /\ bitwidth_mode # "QCustom"
       THEN Raise("UnexpectedQc", NoTensorsUtilization)
       ELSE Sorted(TopoSort(g, GetTargetActivationNodes(g, target_criterion,
                                                        include_reused, <<>>)))

(***************************************************************************)
(* BOPS.                                                                   *)
(***************************************************************************)
\* the node's BOPS as it would be if the activation bit-width were that of
\* the node itself instead of its input's
ComputeNodeBops_OwnActivation(g, n, bitwidth_mode, act_qcs, w_qc) ==
    LET Product(a_nbits, w_nbits, node_mac) ==
            IF Failed(w_nbits) THEN Raise(w_nbits.err, 0)
            ELSE Ret(a_nbits.val * w_nbits.val * node_mac)
        Kernel(a_nbits, kernel_attrs, node_mac) ==
            IF Failed(a_nbits) THEN Raise(a_nbits.err, 0)
            ELSE IF Len(kernel_attrs) > 1 THEN Raise("MultipleKernelAttrs", 0)
            ELSE IF kernel_attrs = <<>> THEN Raise("IndexError", 0)
            ELSE Product(a_nbits,
                         GetWeightNbits(g.nodes[n], kernel_attrs[1], bitwidth_mode, w_qc),
                         node_mac)
        Input(input_act_node, node_mac) ==
            Kernel(GetActivationNbits(g.nodes[n], bitwidth_mode, QcsGet(act_qcs, n)),
                   GetKernelOpAttributes(g.nodes[n].type), node_mac)
        Edges(node_mac, incoming_edges) ==
            IF node_mac = 0 THEN Ret(node_mac)
            ELSE IF incoming_edges = {} THEN Ret(0)
            ELSE IF Cardinality(incoming_edges) # 1 THEN Raise("AssertSingleInput", 0)
            ELSE Input(CHOOSE src \in incoming_edges : TRUE, node_mac)
    IN Edges(GetNodeMacOperations(g.nodes[n]), IncomingSources(g, n))

\* the node's BOPS as it would be if the first of several kernel attributes
\* were taken
ComputeNodeBops_FirstKernel(g, n, bitwidth_mode, act_qcs, w_qc) ==
    LET Product(a_nbits, w_nbits, node_mac) ==
            IF Failed(w_nbits) THEN Raise(w_nbits.err, 0)
            ELSE Ret(a_nbits.val * w_nbits.val * node_mac)
        Kernel(a_nbits, kernel_attrs, node_mac) ==
            IF Failed(a_nbits) THEN Raise(a_nbits.err, 0)
            ELSE IF kernel_attrs = <<>> THEN Raise("IndexError", 0)
            ELSE Product(a_nbits,
                         GetWeightNbits(g.nodes[n], kernel_attrs[1], bitwidth_mode, w_qc),
                         node_mac)
        Input(input_act_node, node_mac) ==
            Kernel(GetActivationNbits(g.nodes[input_act_node], bitwidth_mode,
                                      QcsGet(act_qcs, input_act_node)),
                   GetKernelOpAttributes(g.nodes[n].type), node_mac)
        Edges(node_mac, incoming_edges) ==
            IF node_mac = 0 THEN Ret(node_mac)
            ELSE IF incoming_edges = {} THEN Ret(0)
            ELSE IF Cardinality(incoming_edges) # 1 THEN Raise("AssertSingleInput", 0)
            ELSE Input(CHOOSE src \in incoming_edges : TRUE, node_mac)
    IN Edges(GetNodeMacOperations(g.nodes[n]), IncomingSources(g, n))

\* the node's BOPS as it would be if the number of incoming edges were not
\* asserted and one of them were taken
ComputeNodeBops_FirstEdge(g, n, bitwidth_mode, act_qcs, w_qc) ==
    LET Product(a_nbits, w_nbits, node_mac) ==
            IF Failed(w_nbits) THEN Raise(w_nbits.err, 0)
            ELSE Ret(a_nbits.val * w_nbits.val * node_mac)
        Kernel(a_nbits, kernel_attrs, node_mac) ==
            IF Failed(a_nbits) THEN Raise(a_nbits.err, 0)
            ELSE IF Len(kernel_attrs) > 1 THEN Raise("MultipleKernelAttrs", 0)
            ELSE IF kernel_attrs = <<>> THEN Raise("IndexError", 0)
            ELSE Product(a_nbits,
                         GetWeightNbits(g.nodes[n], kernel_attrs[1], bitwidth_mode, w_qc),
                         node_mac)
        Input(input_act_node, node_mac) ==
            Kernel(GetActivationNbits(g.nodes[input_act_node], bitwidth_mode,
                                      QcsGet(act_qcs, input_act_node)),
                   GetKernelOpAttributes(g.nodes[n].type), node_mac)
        Edges(node_mac, incoming_edges) ==
            IF node_mac = 0 THEN Ret(node_mac)
            ELSE IF incoming_edges = {} THEN Ret(0)
            ELSE Input(CHOOSE src \in incoming_edges : TRUE, node_mac)
    IN Edges(GetNodeMacOperations(g.nodes[n]), IncomingSources(g, n))

\* compute_node_bops
ComputeNodeBops(g, n, bitwidth_mode, act_qcs, w_qc) ==
    LET Product(a_nbits, w_nbits, node_mac) ==
            IF Failed(w_nbits) THEN Raise(w_nbits.err, 0)
            ELSE Ret(a_nbits.val * w_nbits.val * node_mac)
        Kernel(a_nbits, kernel_attrs, node_mac) ==
            IF Failed(a_nbits) THEN Raise(a_nbits.err, 0)
            ELSE IF Len(kernel_attrs) > 1 THEN Raise("MultipleKernelAttrs", 0)
            ELSE IF kernel_attrs = <<>> THEN Raise("IndexError", 0)
            ELSE Product(a_nbits,
                         GetWeightNbits(g.nodes[n], kernel_attrs[1], bitwidth_mode, w_qc),
                         node_mac)
        Input(input_act_node, node_mac) ==
            Kernel(GetActivationNbits(g.nodes[input_act_node], bitwidth_mode,
                                      QcsGet(act_qcs, input_act_node)),
                   GetKernelOpAttributes(g.nodes[n].type), node_mac)
        Edges(node_mac, incoming_edges) ==
            IF node_mac = 0 THEN Ret(node_mac)
            ELSE IF incoming_edges = {} THEN Ret(0)
            ELSE IF Cardinality(incoming_edges) # 1 THEN Raise("AssertSingleInput", 0)
            ELSE Input(CHOOSE src \in incoming_edges : TRUE, node_mac)
    IN Edges(GetNodeMacOperations(g.nodes[n]), IncomingSources(g, n))

\* the loop of compute_bops over the selected nodes
RECURSIVE BopsLoop(_, _, _, _, _, _, _)
BopsLoop(g, nodes, bitwidth_mode, act_qcs, w_qcs, i, acc) ==
    LET Step(n, r) ==
            IF Failed(r) THEN Raise(r.err, <<>>)
            ELSE BopsLoop(g, nodes, bitwidth_mode, act_qcs, w_qcs, i + 1,
                          Append(acc, [key |-> n, bops |-> r.val]))
    IN IF i > Len(nodes) THEN Ret(acc)
       ELSE Step(nodes[i],
                 ComputeNodeBops(g, nodes[i], bitwidth_mode, act_qcs, QcsGet(w_qcs, nodes[i])))

RECURSIVE SumBops(_)
SumBops(items) ==
    IF items = <<>> THEN 0
    ELSE SumBops(SubSeq(items, 1, Len(items) - 1)) + items[Len(items)].bops

NoBops == [total |-> 0, nodes_bops |-> <<>>]

\* compute_bops as it would be if it accepted every criterion
ComputeBops_AnyCriterion(g, target_criterion, bitwidth_mode, act_qcs, w_qcs) ==
    LET HasKernel(n) == HasKernelWeightToQuantize(g.nodes[n])
        Total(loop) ==
            IF Failed(loop) THEN Raise(loop.err, NoBops)
            ELSE Ret([total |-> SumBops(loop.val), nodes_bops |-> loop.val])
    IN      Total(BopsLoop(g,
                           SelectSeq(CollectTargetNodesWAttrs(g, target_criterion, TRUE),
                                     HasKernel),
                           bitwidth_mode, act_qcs, w_qcs, 1, <<>>))

\* compute_bops as it would be if it went through its nodes in topological
\* order
ComputeBops_TopoSorted(g, target_criterion, bitwidth_mode, act_qcs, w_qcs) ==
    LET HasKernel(n) == HasKernelWeightToQuantize(g.nodes[n])
        Total(loop) ==
            IF Failed(loop) THEN Raise(loop.err, NoBops)
            ELSE Ret([total |-> SumBops(loop.val), nodes_bops |-> loop.val])
    IN IF target_criterion # "AnyQuantized"
       THEN Raise("BopsCriterion", NoBops)
       ELSE Total(BopsLoop(g,
                           TopoSort(g, SelectSeq(CollectTargetNodesWAttrs(g, target_criterion, TRUE),
                                                 HasKernel)).val,
                           bitwidth_mode, act_qcs, w_qcs, 1, <<>>))

\* compute_bops
ComputeBops(g, target_criterion, bitwidth_mode, act_qcs, w_qcs) ==
    LET HasKernel(n) == HasKernelWeightToQuantize(g.nodes[n])
        Total(loop) ==
            IF Failed(loop) THEN Raise(loop.err, NoBops)
            ELSE Ret([total |-> SumBops(loop.val), nodes_bops |-> loop.val])
    IN IF target_criterion # "AnyQuantized"
       THEN Raise("BopsCriterion", NoBops)
       ELSE Total(BopsLoop(g,
                           SelectSeq(CollectTargetNodesWAttrs(g, target_criterion, TRUE),
                                     HasKernel),
                           bitwidth_mode, act_qcs, w_qcs, 1, <<>>))

(***************************************************************************)
(* compute_resource_utilization.  A ResourceUtilization record is the map  *)
(* from its populated metrics to their values; get_restricted_targets is   *)
(* its domain.                                                             *)
(***************************************************************************)
EmptyRU == [t \in {} |-> ZeroBytes]

GetRestrictedTargets(ru) == DOMAIN ru

\* the targets as they would be if an empty collection were taken as given
EffectiveTargets_EmptyAsGiven(ru_targets) == ru_targets

\* ru_targets = set(ru_targets) if ru_targets else set(RUTarget); {} stands
\* for None and for an empty collection, which the test treats alike
EffectiveTargets(ru_targets) == IF ru_targets # {} THEN ru_targets ELSE RUTarget

\* the check that custom configurations come with mode QCustom, as it would
\* be if it looked at w_qcs alone
UnexpectedQcs_WeightsOnly(w_qcs, act_qcs, bitwidth_mode) ==
    Truthy(w_qcs) /\ bitwidth_mode # "QCustom"

\* (w_qcs or act_qcs) and bitwidth_mode != BitwidthMode.QCustom
UnexpectedQcs(w_qcs, act_qcs, bitwidth_mode) ==
    (Truthy(w_qcs) \/ Truthy(act_qcs)) /\ bitwidth_mode # "QCustom"

\* the validation of w_qcs as it would be if it dropped an unused w_qcs
\* whatever allow_unused_qcs says
ValidateWQcs_AlwaysDrops(w_qcs, ru_targets, allow_unused_qcs) ==
    IF Truthy(w_qcs) /\ {"WEIGHTS", "TOTAL", "BOPS"} \cap ru_targets = {}
    THEN Ret(NoQcs)
    ELSE Ret(w_qcs)

\* the unused-configuration validation of w_qcs: the w_qcs the call goes on with
ValidateWQcs(w_qcs, ru_targets, allow_unused_qcs) ==
    IF Truthy(w_qcs) /\ {"WEIGHTS", "TOTAL", "BOPS"} \cap ru_targets = {}
    THEN IF ~allow_unused_qcs THEN Raise("UnusedWeightQc", NoQcs) ELSE Ret(NoQcs)
    ELSE Ret(w_qcs)

\* the unused-configuration validation of act_qcs
ValidateActQcs(act_qcs, ru_targets, allow_unused_qcs) ==
    IF Truthy(act_qcs) /\ {"ACTIVATION", "TOTAL", "BOPS"} \cap ru_targets = {}
    THEN IF ~allow_unused_qcs THEN Raise("UnusedActivationQc", NoQcs) ELSE Ret(NoQcs)
    ELSE Ret(act_qcs)

\* the record as it would be if a total were also set whenever weights and
\* activation are both requested
PopulateRU_TotalWithBoth(ru_targets, w_total, a_total, bops) ==
    [t \in ru_targets \cup (IF {"WEIGHTS", "ACTIVATION"} \subseteq ru_targets
                            THEN {"TOTAL"} ELSE {}) |->
        CASE t = "WEIGHTS"    -> w_total
          [] t = "ACTIVATION" -> a_total
          [] t = "TOTAL"      -> BytesAdd(w_total, a_total)
          [] t = "BOPS"       -> bops]

\* the record as it would be if the total left the weights out
PopulateRU_TotalIsActivation(ru_targets, w_total, a_total, bops) ==
    [t \in ru_targets |->
        CASE t = "WEIGHTS"    -> w_total
          [] t = "ACTIVATION" -> a_total
          [] t = "TOTAL"      -> a_total
          [] t = "BOPS"       -> bops]

\* ru = ResourceUtilization() and the assignments that populate it
PopulateRU(ru_targets, w_total, a_total, bops) ==
    [t \in ({"WEIGHTS"} \cap ru_targets) \cup ({"ACTIVATION"} \cap ru_targets)
           \cup ({"TOTAL"} \cap ru_targets) \cup ({"BOPS"} \cap ru_targets) |->
        CASE t = "WEIGHTS"    -> w_total
          [] t = "ACTIVATION" -> a_total
          [] t = "TOTAL"      -> BytesAdd(w_total, a_total)
          [] t = "BOPS"       -> bops]

\* the metrics of compute_resource_utilization, once its arguments are validated
ComputeMetrics(g, c, target_criterion, bitwidth_mode, act_qcs, w_qcs, ru_targets) ==
    LET Checked(ru, cache_after) ==
            IF GetRestrictedTargets(ru) # ru_targets
            THEN [res |-> Raise("AssertMetrics", EmptyRU), cache |-> cache_after]
            ELSE [res |-> Ret(ru), cache |-> cache_after]
        Bops(w, a, b) ==
            IF Failed(b) THEN [res |-> Raise(b.err, EmptyRU), cache |-> a.cache]
            ELSE Checked(PopulateRU(ru_targets, w.val.total, a.res.val, b.val.total), a.cache)
        Activation(w, a) ==
            IF Failed(a.res) THEN [res |-> Raise(a.res.err, EmptyRU), cache |-> a.cache]
            ELSE Bops(w, a,
                      IF "BOPS" \in ru_targets
                      THEN ComputeBops(g, target_criterion, bitwidth_mode, act_qcs, w_qcs)
                      ELSE Ret(NoBops))
        Weights(w) ==
            IF Failed(w) THEN [res |-> Raise(w.err, EmptyRU), cache |-> c]
            ELSE Activation(w,
                      IF {"ACTIVATION", "TOTAL"} \cap ru_targets # {}
                      THEN ComputeActivationsUtilization(g, c, target_criterion,
                                                         bitwidth_mode, act_qcs)
                      ELSE [res |-> Ret(ZeroBytes), cache |-> c])
    IN Weights(IF {"WEIGHTS", "TOTAL"} \cap ru_targets # {}
               THEN ComputeWeightsUtilization(g, target_criterion, bitwidth_mode, w_qcs)
               ELSE Ret(NoWeightsUtilization))

\* compute_resource_utilization: [res, cache]
ComputeResourceUtilization(g, c, target_criterion, bitwidth_mode, act_qcs, w_qcs, ru_targets, allow_unused_qcs) ==
    LET Validated(targets, w_valid, act_valid) ==
            IF Failed(w_valid) THEN [res |-> Raise(w_valid.err, EmptyRU), cache |-> c]
            ELSE IF Failed(act_valid) THEN [res |-> Raise(act_valid.err, EmptyRU), cache |-> c]
            ELSE ComputeMetrics(g, c, target_criterion, bitwidth_mode,
                                act_valid.val, w_valid.val, targets)
    IN IF UnexpectedQcs(w_qcs, act_qcs, bitwidth_mode)
       THEN [res |-> Raise("UnexpectedQc", EmptyRU), cache |-> c]
       ELSE Validated(EffectiveTargets(ru_targets),
                      ValidateWQcs(w_qcs, EffectiveTargets(ru_targets), allow_unused_qcs),
                      ValidateActQcs(act_qcs, EffectiveTargets(ru_targets), allow_unused_qcs))

(***************************************************************************)
(* The arguments the calls are made with.                                  *)
(***************************************************************************)
AllNodes(g, cfg) == [n \in NodeIds(g) |-> cfg]

OneNode(n, cfg) == [m \in {n} |-> cfg]

KernelCfg(kernel) == [a \in {"kernel"} |-> kernel]

ConvCfg(kernel, bias) == [a \in {"kernel", "bias"} |-> IF a = "kernel" THEN kernel ELSE bias]

ActQcsChoices(g) ==
    {NoQcs, OneNode(Len(g.nodes), QCfg(16, FALSE)), AllNodes(g, QCfg(4, TRUE))}

WQcsChoices(g) ==
    {NoQcs, OneNode(Len(g.nodes), KernelCfg(QCfg(2, TRUE))),
     AllNodes(g, ConvCfg(QCfg(16, FALSE), QCfg(4, TRUE)))}

\* a single node's custom configuration, or <<>> for None
NodeActQcChoices == {<<>>, <<QCfg(4, TRUE)>>, <<QCfg(6, TRUE)>>, <<QCfg(16, FALSE)>>}

NodeWQcChoices ==
    {<<>>, <<KernelCfg(QCfg(2, TRUE))>>, <<ConvCfg(QCfg(16, FALSE), QCfg(4, TRUE))>>}

\* the last list names an attribute twice
ExplicitAttrLists ==
    {<<>>, <<"kernel">>, <<"bias", "kernel">>, <<"kernel", "bias", "kernel">>}

\* nodes of every activation quantization: enabled or not, any candidate n_bits
ProbeNodes ==
    {[ReluNode EXCEPT !.actEnabled = e, !.actBits = b] :
        e \in BOOLEAN, b \in (SUBSET {4, 6, 8}) \ {{}}}

\* nodes of every kernel quantization, with a bias of two candidates
ProbeWeightNodes ==
    {[ConvNode EXCEPT !.weights = ConvWeights(WeightAttr(6, e, b), WeightAttr(2, TRUE, {4, 8}))] :
        e \in BOOLEAN, b \in (SUBSET {2, 4}) \ {{}}}

NoNode == InputNode

\* the node lists _topo_sort is given: none, one or two nodes, of the graph or
\* not, twice the same or not
NodeLists ==
    {<<>>} \cup {<<a>> : a \in 1..MaxNodes} \cup {<<a, b>> : a, b \in 1..MaxNodes}

NoCall ==
    [op |-> "idle", target_criterion |-> "None", bitwidth_mode |-> "Float",
     act_qcs |-> NoQcs, w_qcs |-> NoQcs, ru_targets |-> {}, allow_unused_qcs |-> FALSE,
     n |-> 0, node |-> NoNode, qc |-> <<>>, target |-> ByCriterion("None"),
     w_attr |-> "none", include_reused |-> FALSE, nodes |-> <<>>]

(***************************************************************************)
(* The state machine: construction, then any sequence of calls.            *)
(***************************************************************************)
ThreadIds == 1..MaxThreads

\* no call is dispatched in parallel
NoThreads ==
    [phase |-> "off", pc |-> [t \in ThreadIds |-> "off"],
     seen |-> [t \in ThreadIds |-> NoCuts], writes |-> 0, warm |-> NoCuts]

Init ==
    /\ graph \in Graphs
    /\ cache = NoCuts
    /\ call = NoCall
    /\ result = Ret(0)
    /\ threads = NoThreads

Idle == call.op = "idle"

\* the arguments of a call of op, the others left at their defaults
Called(op) == [NoCall EXCEPT !.op = op]

\* the (act_qcs, w_qcs, allow_unused_qcs) a compute_resource_utilization call
\* is given; a configuration of a single node comes with allow_unused_qcs unset
QcsChoices(g) ==
    {<<NoQcs, NoQcs, FALSE>>}
        \cup {<<a, NoQcs, FALSE>> : a \in ActQcsChoices(g) \ {NoQcs}}
        \cup {<<NoQcs, w, FALSE>> : w \in WQcsChoices(g) \ {NoQcs}}
        \cup {<<AllNodes(g, QCfg(4, TRUE)), NoQcs, TRUE>>,
              <<NoQcs, AllNodes(g, ConvCfg(QCfg(16, FALSE), QCfg(4, TRUE))), TRUE>>}
        \cup {<<AllNodes(g, QCfg(4, TRUE)),
                AllNodes(g, ConvCfg(QCfg(16, FALSE), QCfg(4, TRUE))), allow>> :
                    allow \in BOOLEAN}

QcsPairs(g) == {<<q[1], q[2]>> : q \in QcsChoices(g)}

\* the (bitwidth_mode, configurations) of a compute_resource_utilization call:
\* every choice in mode QCustom; in the other modes none, act_qcs alone,
\* w_qcs alone or both
ModeQcsChoices(g) ==
    {mq \in BitwidthMode \X QcsChoices(g) :
        \/ mq[1] = "QCustom"
        \/ mq[2] \in {<<NoQcs, NoQcs, FALSE>>,
                      <<OneNode(Len(g.nodes), QCfg(16, FALSE)), NoQcs, FALSE>>,
                      <<NoQcs, AllNodes(g, ConvCfg(QCfg(16, FALSE), QCfg(4, TRUE))), FALSE>>,
                      <<AllNodes(g, QCfg(4, TRUE)),
                        AllNodes(g, ConvCfg(QCfg(16, FALSE), QCfg(4, TRUE))), TRUE>>}}

CallComputeResourceUtilization ==
    /\ Idle
    /\ \E target_criterion \in TargetInclusionCriterion, mq \in ModeQcsChoices(graph),
          ru_targets \in SUBSET RUTarget :
        LET bitwidth_mode == mq[1]
            qcs == mq[2]
            r == ComputeResourceUtilization(graph, cache, target_criterion, bitwidth_mode,
                                            qcs[1], qcs[2], ru_targets, qcs[3])
        IN /\ call' = [Called("compute_resource_utilization") EXCEPT
                          !.target_criterion = target_criterion,
                          !.bitwidth_mode = bitwidth_mode,
                          !.act_qcs = qcs[1], !.w_qcs = qcs[2],
                          !.ru_targets = ru_targets,
                          !.allow_unused_qcs = qcs[3]]
           /\ result' = r.res
           /\ cache' = r.cache
           /\ UNCHANGED <<graph, threads>>

CallComputeWeightsUtilization ==
    /\ Idle
    /\ \E target_criterion \in TargetInclusionCriterion, bitwidth_mode \in BitwidthMode,
          w_qcs \in WQcsChoices(graph) :
        /\ call' = [Called("compute_weights_utilization") EXCEPT
                       !.target_criterion = target_criterion,
                       !.bitwidth_mode = bitwidth_mode, !.w_qcs = w_qcs]
        /\ result' = ComputeWeightsUtilization(graph, target_criterion, bitwidth_mode, w_qcs)
        /\ UNCHANGED <<graph, cache, threads>>

CallComputeNodeWeightsUtilization ==
    /\ Idle
    /\ \E n \in NodeIds(graph), bitwidth_mode \in BitwidthMode, qc \in NodeWQcChoices,
          target \in {ByCriterion(c) : c \in TargetInclusionCriterion}
                         \cup {ByAttrs(l) : l \in ExplicitAttrLists} :
        /\ call' = [Called("compute_node_weights_utilization") EXCEPT
                       !.n = n, !.target = target, !.bitwidth_mode = bitwidth_mode,
                       !.qc = qc]
        /\ result' = ComputeNodeWeightsUtilization(graph.nodes[n], target, bitwidth_mode, qc)
        /\ UNCHANGED <<graph, cache, threads>>

CallComputeActivationsUtilization ==
    /\ Idle
    /\ \E target_criterion \in TargetInclusionCriterion, bitwidth_mode \in BitwidthMode,
          act_qcs \in ActQcsChoices(graph) :
        LET r == ComputeActivationsUtilization(graph, cache, target_criterion,
                                               bitwidth_mode, act_qcs)
        IN /\ call' = [Called("compute_activations_utilization") EXCEPT
                          !.target_criterion = target_criterion,
                          !.bitwidth_mode = bitwidth_mode, !.act_qcs = act_qcs]
           /\ result' = r.res
           /\ cache' = r.cache
           /\ UNCHANGED <<graph, threads>>

CallComputeActivationUtilizationByCut ==
    /\ Idle
    /\ \E target_criterion \in TargetInclusionCriterion, bitwidth_mode \in BitwidthMode,
          act_qcs \in ActQcsChoices(graph) :
        LET r == ComputeActivationUtilizationByCut(graph, cache, target_criterion,
                                                   bitwidth_mode, act_qcs)
        IN /\ call' = [Called("compute_activation_utilization_by_cut") EXCEPT
                          !.target_criterion = target_criterion,
                          !.bitwidth_mode = bitwidth_mode, !.act_qcs = act_qcs]
           /\ result' = r.res
           /\ cache' = r.cache
           /\ UNCHANGED <<graph, threads>>

CallComputeActivationTensorsUtilization ==
    /\ Idle
    /\ \E target_criterion \in TargetInclusionCriterion, bitwidth_mode \in BitwidthMode,
          act_qcs \in ActQcsChoices(graph), include_reused \in BOOLEAN :
        /\ call' = [Called("compute_activation_tensors_utilization") EXCEPT
                       !.target_criterion = target_criterion,
                       !.bitwidth_mode = bitwidth_mode, !.act_qcs = act_qcs,
                       !.include_reused = include_reused]
        /\ result' = ComputeActivationTensorsUtilization(graph, target_criterion,
                                                         bitwidth_mode, act_qcs, include_reused)
        /\ UNCHANGED <<graph, cache, threads>>

CallComputeNodeActivationTensorUtilization ==
    /\ Idle
    /\ \E n \in NodeIds(graph), bitwidth_mode \in BitwidthMode, qc \in NodeActQcChoices,
          target_criterion \in TargetInclusionCriterion \cup {"None"} :
        /\ call' = [Called("compute_node_activation_tensor_utilization") EXCEPT
                       !.n = n, !.target_criterion = target_criterion,
                       !.bitwidth_mode = bitwidth_mode, !.qc = qc]
        /\ result' = ComputeNodeActivationTensorUtilization(graph, n, target_criterion,
                                                            bitwidth_mode, qc)
        /\ UNCHANGED <<graph, cache, threads>>

CallComputeBops ==
    /\ Idle
    /\ \E target_criterion \in TargetInclusionCriterion, bitwidth_mode \in BitwidthMode,
          qcs \in QcsPairs(graph) :
        /\ call' = [Called("compute_bops") EXCEPT
                       !.target_criterion = target_criterion,
                       !.bitwidth_mode = bitwidth_mode,
                       !.act_qcs = qcs[1], !.w_qcs = qcs[2]]
        /\ result' = ComputeBops(graph, target_criterion, bitwidth_mode, qcs[1], qcs[2])
        /\ UNCHANGED <<graph, cache, threads>>

CallComputeNodeBops ==
    /\ Idle
    /\ \E n \in NodeIds(graph), bitwidth_mode \in BitwidthMode,
          act_qcs \in ActQcsChoices(graph), w_qc \in NodeWQcChoices :
        /\ call' = [Called("compute_node_bops") EXCEPT
                       !.n = n, !.bitwidth_mode = bitwidth_mode,
                       !.act_qcs = act_qcs, !.qc = w_qc]
        /\ result' = ComputeNodeBops(graph, n, bitwidth_mode, act_qcs, w_qc)
        /\ UNCHANGED <<graph, cache, threads>>

\* the classmethod _get_activation_nbits, on any node
CallGetActivationNbits ==
    /\ Idle
    /\ \E node \in ProbeNodes, bitwidth_mode \in BitwidthMode, act_qc \in NodeActQcChoices :
        /\ call' = [Called("_get_activation_nbits") EXCEPT
                       !.node = node, !.bitwidth_mode = bitwidth_mode, !.qc = act_qc]
        /\ result' = GetActivationNbits(node, bitwidth_mode, act_qc)
        /\ UNCHANGED <<graph, cache, threads>>

\* the classmethod _get_weight_nbits, on any node and any of its attributes
CallGetWeightNbits ==
    /\ Idle
    /\ \E node \in NodeKinds \cup ProbeWeightNodes, bitwidth_mode \in BitwidthMode,
          w_qc \in NodeWQcChoices :
        \E w_attr \in DOMAIN node.weights :
            /\ call' = [Called("_get_weight_nbits") EXCEPT
                           !.node = node, !.w_attr = w_attr,
                           !.bitwidth_mode = bitwidth_mode, !.qc = w_qc]
            /\ result' = GetWeightNbits(node, w_attr, bitwidth_mode, w_qc)
            /\ UNCHANGED <<graph, cache, threads>>

\* _get_target_weight_attrs, on any node
CallGetTargetWeightAttrs ==
    /\ Idle
    /\ \E node \in NodeKinds \cup ProbeWeightNodes, target_criterion \in TargetInclusionCriterion :
        /\ call' = [Called("_get_target_weight_attrs") EXCEPT
                       !.node = node, !.target_criterion = target_criterion]
        /\ result' = Ret(GetTargetWeightAttrs(node, target_criterion))
        /\ UNCHANGED <<graph, cache, threads>>

\* _topo_sort, on any list of nodes
CallTopoSort ==
    /\ Idle
    /\ \E nodes \in NodeLists :
        /\ call' = [Called("_topo_sort") EXCEPT !.nodes = nodes]
        /\ result' = TopoSort(graph, nodes)
        /\ UNCHANGED <<graph, cache, threads>>

\* The caller takes the result; the RUC keeps nothing of the call but its cache.
Return ==
    /\ ~Idle
    /\ call' = NoCall
    /\ result' = Ret(0)
    /\ UNCHANGED <<graph, cache, threads>>

Next ==
    \/ CallComputeResourceUtilization
    \/ CallComputeWeightsUtilization
    \/ CallComputeNodeWeightsUtilization
    \/ CallComputeActivationsUtilization
    \/ CallComputeActivationUtilizationByCut
    \/ CallComputeActivationTensorsUtilization
    \/ CallComputeNodeActivationTensorUtilization
    \/ CallComputeBops
    \/ CallComputeNodeBops
    \/ CallGetActivationNbits
    \/ CallGetWeightNbits
    \/ CallGetTargetWeightAttrs
    \/ CallTopoSort
    \/ Return

Spec == Init /\ [][Next]_vars

(***************************************************************************)
(* Parallel dispatch.  One activation query is made on the new instance,   *)
(* or none; then MaxThreads calls of                                       *)
(* compute_activation_utilization_by_cut(Any, Float) run in parallel with  *)
(* no lock.  A thread can be preempted between the statements of the cuts  *)
(* property: the test of self._cuts, the computation of the cuts, the      *)
(* assignment of self._cuts and the return.  threads.writes counts the     *)
(* assignments of self._cuts, threads.warm is the cache at dispatch and    *)
(* threads.seen[t] the cuts thread t was handed.                           *)
(***************************************************************************)
InitParallel ==
    /\ graph \in Graphs
    /\ cache = NoCuts
    /\ call = NoCall
    /\ result = Ret(0)
    /\ threads = [NoThreads EXCEPT !.phase = "new"]

\* if self._cuts is None
CutsIsNone_Always(c) == TRUE

CutsIsNone(c) == ~c.filled

ActivationQueries ==
    {"compute_activation_utilization_by_cut", "compute_activations_utilization",
     "compute_activation_tensors_utilization", "compute_node_activation_tensor_utilization",
     "compute_resource_utilization"}

\* the targets of a compute call that make it compute the activation metric:
\* the metric alone, the total (weights first), all the targets ({})
ActivationTargets == {{"ACTIVATION"}, {"TOTAL"}, {}}

\* an activation query made with default configurations: [res, cache]
ActivationQuery(g, c, op, target_criterion, bitwidth_mode, ru_targets) ==
    CASE op = "compute_resource_utilization" ->
            ComputeResourceUtilization(g, c, target_criterion, bitwidth_mode,
                                       NoQcs, NoQcs, ru_targets, FALSE)
      [] op = "compute_activation_utilization_by_cut" ->
            ComputeActivationUtilizationByCut(g, c, target_criterion, bitwidth_mode, NoQcs)
      [] op = "compute_activations_utilization" ->
            ComputeActivationsUtilization(g, c, target_criterion, bitwidth_mode, NoQcs)
      [] op = "compute_activation_tensors_utilization" ->
            [res |-> ComputeActivationTensorsUtilization(g, target_criterion, bitwidth_mode,
                                                         NoQcs, FALSE),
             cache |-> c]
      [] op = "compute_node_activation_tensor_utilization" ->
            [res |-> ComputeNodeActivationTensorUtilization(g, 1, target_criterion,
                                                            bitwidth_mode, <<>>),
             cache |-> c]

\* the query made before the dispatch, single-threaded
Prewarm ==
    /\ threads.phase = "new"
    /\ \E op \in ActivationQueries, target_criterion \in TargetInclusionCriterion,
          bitwidth_mode \in {"Float", "QCustom"}, ru_targets \in ActivationTargets :
        LET r == ActivationQuery(graph, cache, op, target_criterion, bitwidth_mode, ru_targets)
        IN /\ call' = [Called(op) EXCEPT !.target_criterion = target_criterion,
                                          !.bitwidth_mode = bitwidth_mode,
                                          !.ru_targets = IF op = "compute_resource_utilization"
                                                         THEN ru_targets ELSE NoCall.ru_targets,
                                          !.n = IF op = "compute_node_activation_tensor_utilization"
                                                THEN 1 ELSE 0]
           /\ result' = r.res
           /\ cache' = r.cache
           /\ threads' = [threads EXCEPT !.phase = "warmed",
                                         !.writes = IF r.cache # cache THEN 1 ELSE 0]
           /\ UNCHANGED graph

\* the parallel calls start; each has nodes to measure (criterion Any) and
\* goes on to `for cut in self.cuts`
Dispatch ==
    /\ threads.phase \in {"new", "warmed"}
    /\ threads' = [threads EXCEPT !.phase = "parallel",
                                  !.pc = [t \in ThreadIds |-> "check"],
                                  !.warm = cache]
    /\ UNCHANGED <<graph, cache, call, result>>

\* if self._cuts is None:
ThreadCheck(t) ==
    /\ threads.phase = "parallel"
    /\ threads.pc[t] = "check"
    /\ threads' = [threads EXCEPT !.pc[t] = IF CutsIsNone(cache) THEN "compute" ELSE "read"]
    /\ UNCHANGED <<graph, cache, call, result>>

\* cuts = self._compute_cuts(); if cuts is None: raise RuntimeError
ThreadCompute(t) ==
    /\ threads.phase = "parallel"
    /\ threads.pc[t] = "compute"
    /\ threads' = [threads EXCEPT !.pc[t] = IF ComputeCuts(graph).none THEN "failed"
                                            ELSE "assign"]
    /\ UNCHANGED <<graph, cache, call, result>>

\* self._cuts = {cut: [...] for cut in cuts}
ThreadAssign(t) ==
    /\ threads.phase = "parallel"
    /\ threads.pc[t] = "assign"
    /\ cache' = CutsCache(graph, ComputeCuts(graph).cuts)
    /\ threads' = [threads EXCEPT !.pc[t] = "read", !.writes = @ + 1]
    /\ UNCHANGED <<graph, call, result>>

\* return self._cuts
ThreadRead(t) ==
    /\ threads.phase = "parallel"
    /\ threads.pc[t] = "read"
    /\ threads' = [threads EXCEPT !.pc[t] = "done", !.seen[t] = cache]
    /\ UNCHANGED <<graph, cache, call, result>>

NextParallel ==
    \/ Prewarm
    \/ Dispatch
    \/ \E t \in ThreadIds : ThreadCheck(t)
    \/ \E t \in ThreadIds : ThreadCompute(t)
    \/ \E t \in ThreadIds : ThreadAssign(t)
    \/ \E t \in ThreadIds : ThreadRead(t)

SpecParallel == InitParallel /\ [][NextParallel]_vars

(***************************************************************************)
(* Properties.                                                             *)
(***************************************************************************)
IsCRU == call.op = "compute_resource_utilization"

\* the targets the last compute_resource_utilization call computes
Requested == IF call.ru_targets = {} THEN RUTarget ELSE call.ru_targets

\* a bytes value as a number of bits (eighths of a byte)
Bits(b) == 8 * b.whole + b.eighths

RECURSIVE SumOver(_, _)
SumOver(S, f) ==
    IF S = {} THEN 0
    ELSE LET x == CHOOSE y \in S : TRUE IN f[x] + SumOver(S \ {x}, f)

\* C1: compute_resource_utilization given a non-empty act_qcs or w_qcs and a
\* mode other than QCustom raises the unexpected-configuration ValueError,
\* whatever the criterion, the targets and allow_unused_qcs.
C1_CustomQcsRequireQCustom ==
    (/\ IsCRU
     /\ Truthy(call.act_qcs) \/ Truthy(call.w_qcs)
     /\ call.bitwidth_mode # "QCustom")
        => (result.err = "UnexpectedQc" /\ result.err \in ValueErrors)

C1_Witness ==
    /\ IsCRU
    /\ call.bitwidth_mode = "QMinBit"
    /\ Truthy(call.w_qcs)
    /\ call.allow_unused_qcs
    /\ call.ru_targets = {"ACTIVATION"}
    /\ result.err = "UnexpectedQc"

UnusedWQcs ==
    /\ IsCRU
    /\ call.bitwidth_mode = "QCustom"
    /\ Truthy(call.w_qcs)
    /\ {"WEIGHTS", "TOTAL", "BOPS"} \cap Requested = {}

UnusedActQcs ==
    /\ IsCRU
    /\ call.bitwidth_mode = "QCustom"
    /\ Truthy(call.act_qcs)
    /\ {"ACTIVATION", "TOTAL", "BOPS"} \cap Requested = {}

\* what the last compute_resource_utilization call returns when made again
\* with the given configurations
SameCallWith(act_qcs, w_qcs) ==
    ComputeResourceUtilization(graph, cache, call.target_criterion, call.bitwidth_mode,
                               act_qcs, w_qcs, call.ru_targets, call.allow_unused_qcs).res

\* C2 as stated: an unused configuration fails the call unless allow_unused_qcs,
\* and with allow_unused_qcs the call succeeds with the record of the same
\* call made without that configuration.
C2_UnusedQcsCallSucceeds ==
    /\ UnusedWQcs =>
          IF ~call.allow_unused_qcs THEN result.err = "UnusedWeightQc"
          ELSE ~Failed(result) /\ result = SameCallWith(call.act_qcs, NoQcs)
    /\ UnusedActQcs =>
          IF ~call.allow_unused_qcs THEN result.err = "UnusedActivationQc"
          ELSE ~Failed(result) /\ result = SameCallWith(NoQcs, call.w_qcs)

\* C2 amended: an unused configuration fails the call with a ValueError unless
\* allow_unused_qcs; with allow_unused_qcs the call returns what the same call
\* made without that configuration returns, the same record or the same
\* failure, and never the unused-configuration error.
C2_UnusedQcsDropped ==
    /\ UnusedWQcs =>
          IF ~call.allow_unused_qcs
          THEN result.err = "UnusedWeightQc" /\ result.err \in ValueErrors
          ELSE /\ result = SameCallWith(call.act_qcs, NoQcs)
               /\ result.err \notin {"UnusedWeightQc", "UnusedActivationQc", "UnexpectedQc"}
    /\ UnusedActQcs =>
          IF ~call.allow_unused_qcs
          THEN result.err = "UnusedActivationQc" /\ result.err \in ValueErrors
          ELSE /\ result = SameCallWith(NoQcs, call.w_qcs)
               /\ result.err \notin {"UnusedWeightQc", "UnusedActivationQc", "UnexpectedQc"}

C2_Witness ==
    /\ UnusedWQcs
    /\ call.allow_unused_qcs
    /\ ~Failed(result)
    /\ DOMAIN result.val = {"ACTIVATION"}
    /\ Bits(result.val["ACTIVATION"]) > 0

\* C3: a compute_resource_utilization call that returns populates exactly the
\* requested targets (all four when none is named), and the assertion that
\* checks it never fails.
C3_ExactlyRequestedTargets ==
    IsCRU => /\ result.err # "AssertMetrics"
             /\ ~Failed(result) => GetRestrictedTargets(result.val) = Requested

C3_Witness ==
    /\ IsCRU
    /\ call.ru_targets = {"WEIGHTS"}
    /\ ~Failed(result)
    /\ DOMAIN result.val = {"WEIGHTS"}
    /\ Bits(result.val["WEIGHTS"]) > 0

\* the weights bytes and the peak activation bytes of the last call's
\* criterion, mode and configurations
CallWeights ==
    ComputeWeightsUtilization(graph, call.target_criterion, call.bitwidth_mode,
                              call.w_qcs).val.total

CallActivation ==
    ComputeActivationsUtilization(graph, cache, call.target_criterion, call.bitwidth_mode,
                                  call.act_qcs).res.val

TotalIsSum ==
    /\ "TOTAL" \in DOMAIN result.val
    /\ Bits(result.val["TOTAL"]) = Bits(CallWeights) + Bits(CallActivation)

\* C4 as stated: the record holds total = weights + peak activation if and
\* only if both Weights and Activation are requested.
C4_TotalIffBothRequested ==
    (IsCRU /\ ~Failed(result)) =>
        (TotalIsSum <=> {"WEIGHTS", "ACTIVATION"} \subseteq Requested)

\* C4 amended: the record holds a total if and only if Total is requested,
\* whether or not Weights and Activation are, and that total is the weights
\* bytes plus the peak activation bytes.
C4_TotalIffTotalRequested ==
    (IsCRU /\ ~Failed(result)) =>
        /\ ("TOTAL" \in DOMAIN result.val) <=> ("TOTAL" \in Requested)
        /\ ("TOTAL" \in Requested) => TotalIsSum

C4_Witness ==
    /\ IsCRU
    /\ call.ru_targets = {"TOTAL"}
    /\ ~Failed(result)
    /\ TotalIsSum
    /\ Bits(CallWeights) > 0
    /\ Bits(CallActivation) > 0
    /\ Bits(result.val["TOTAL"]) % 8 # 0

\* whether the criterion selects the weight attribute attr of node
WeightSelected(node, attr, target_criterion) ==
    CASE target_criterion = "Any"              -> TRUE
      [] target_criterion = "AnyQuantized"     -> node.weights[attr].enabled
      [] target_criterion = "QConfigurable"    ->
            node.weights[attr].enabled /\ Cardinality(node.weights[attr].bits) > 1
      [] target_criterion = "QNonConfigurable" ->
            node.weights[attr].enabled /\ Cardinality(node.weights[attr].bits) = 1

\* the (node, attribute) pairs the weights metric counts: nodes not flagged
\* reuse, attributes selected by the criterion
CountedWeights(g, target_criterion) ==
    {<<n, attr>> \in NodeIds(g) \X UNION {DOMAIN g.nodes[m].weights : m \in NodeIds(g)} :
        /\ ~g.nodes[n].reuse
        /\ attr \in DOMAIN g.nodes[n].weights
        /\ WeightSelected(g.nodes[n], attr, target_criterion)}

\* element_count * effective_nbits of every counted pair
WeightBits(g, target_criterion, bitwidth_mode, w_qcs) ==
    [p \in CountedWeights(g, target_criterion) |->
        g.nodes[p[1]].weights[p[2]].size
            * GetWeightNbits(g.nodes[p[1]], p[2], bitwidth_mode, QcsGet(w_qcs, p[1])).val]

ExpectedWeightBits(g, target_criterion, bitwidth_mode, w_qcs) ==
    SumOver(CountedWeights(g, target_criterion),
            WeightBits(g, target_criterion, bitwidth_mode, w_qcs))

IsCWU == call.op = "compute_weights_utilization"

\* C5: the weights bytes a call returns, from compute_weights_utilization or
\* as the Weights metric of compute_resource_utilization, are the sum over
\* the nodes not flagged reuse and over their attributes selected by the
\* criterion of element_count * effective_nbits / 8; with no attribute
\* selected a valid call returns 0.
C5_WeightsIsSumOverSelected ==
    /\ (IsCWU /\ ~Failed(result)) =>
          Bits(result.val.total) =
              ExpectedWeightBits(graph, call.target_criterion, call.bitwidth_mode,
                                 call.w_qcs)
    /\ (IsCRU /\ ~Failed(result) /\ "WEIGHTS" \in Requested) =>
          Bits(result.val["WEIGHTS"]) =
              ExpectedWeightBits(graph, call.target_criterion, call.bitwidth_mode,
                                 call.w_qcs)
    /\ (/\ IsCWU
        /\ CountedWeights(graph, call.target_criterion) = {}
        /\ ~(Truthy(call.w_qcs) /\ call.bitwidth_mode # "QCustom"))
           => (~Failed(result) /\ result.val.total = ZeroBytes)

C5_Witness ==
    /\ IsCWU
    /\ ~Failed(result)
    /\ call.target_criterion = "AnyQuantized"
    /\ call.bitwidth_mode = "QCustom"
    /\ Truthy(call.w_qcs)
    /\ Cardinality(CountedWeights(graph, "AnyQuantized")) >= 2
    /\ \E n \in NodeIds(graph) : graph.nodes[n].reuse
    /\ Bits(result.val.total) % 8 # 0

\* the graph with one more node appended: a copy of node j, flagged reuse
InsertReused(g, j) ==
    [g EXCEPT !.nodes = Append(g.nodes, [g.nodes[j] EXCEPT !.reuse = TRUE]),
              !.topo = Append(g.topo, Len(g.nodes) + 1),
              !.edges = g.edges \cup {<<Len(g.nodes), Len(g.nodes) + 1>>}]

\* the nodes that belong to a reuse group
Reusable(g) == {j \in NodeIds(g) : g.nodes[j].reuse_group # "none"}

\* C6: with one more node inserted in the reuse group of an existing node,
\* the weights bytes are what they are without it, for every criterion, mode
\* and configuration, from compute_weights_utilization and as the Weights
\* metric of compute_resource_utilization.
C6_ReuseCountedOnce ==
    \A j \in Reusable(graph) :
        /\ IsCWU =>
              /\ ComputeWeightsUtilization(InsertReused(graph, j), call.target_criterion,
                                           call.bitwidth_mode, call.w_qcs).err = result.err
              /\ ComputeWeightsUtilization(InsertReused(graph, j), call.target_criterion,
                                           call.bitwidth_mode, call.w_qcs).val.total
                     = result.val.total
        /\ (IsCRU /\ ~Failed(result) /\ call.ru_targets = {"WEIGHTS"}) =>
              ComputeResourceUtilization(InsertReused(graph, j), NoCuts,
                                         call.target_criterion, call.bitwidth_mode,
                                         call.act_qcs, call.w_qcs, call.ru_targets,
                                         call.allow_unused_qcs).res = result

C6_Witness ==
    /\ IsCWU
    /\ ~Failed(result)
    /\ Bits(result.val.total) > 0
    /\ \E j \in Reusable(graph) :
          /\ \A n \in NodeIds(graph) : ~graph.nodes[n].reuse
          /\ GetTargetWeightAttrs(graph.nodes[j], call.target_criterion) # <<>>
          /\ ComputeWeightsUtilization(InsertReused(graph, j), call.target_criterion,
                                       call.bitwidth_mode, call.w_qcs).val.total
                 = result.val.total

\* whether the criterion selects the activation of node
ActivationSelected(node, target_criterion) ==
    CASE target_criterion = "Any"              -> TRUE
      [] target_criterion = "AnyQuantized"     -> node.actEnabled
      [] target_criterion = "QConfigurable"    ->
            node.actEnabled /\ Cardinality(node.actBits) > 1
      [] target_criterion = "QNonConfigurable" ->
            node.actEnabled /\ Cardinality(node.actBits) = 1

SelectedNodes(g, target_criterion) ==
    {n \in NodeIds(g) : ActivationSelected(g.nodes[n], target_criterion)}

\* the nodes of the k-th cached cut
CutNodes(k) == {cache.cuts[k].nodes[i] : i \in 1..Len(cache.cuts[k].nodes)}

\* the effective activation bit-width of node n in the last call
CallActivationNbits(n) ==
    GetActivationNbits(graph.nodes[n], call.bitwidth_mode, QcsGet(call.act_qcs, n))

\* output_element_count * effective_nbits of every selected node
ActivationBits ==
    [n \in SelectedNodes(graph, call.target_criterion) |->
        graph.nodes[n].out * CallActivationNbits(n).val]

\* the sum, over the selected nodes of the k-th cached cut, of their bits
CutBits(k) ==
    SumOver(CutNodes(k) \cap SelectedNodes(graph, call.target_criterion), ActivationBits)

IsByCut == call.op = "compute_activation_utilization_by_cut"

\* the peak is the maximum over the cached cuts, and no cut of the returned
\* per-cut map exceeds it
PeakDominates ==
    /\ cache.filled
    /\ Bits(result.val.total) = SetMax({CutBits(k) : k \in 1..Len(cache.cuts)})
    /\ \A i \in 1..Len(result.val.util_per_cut) :
          Bits(result.val.util_per_cut[i].util.bytes) <= Bits(result.val.total)

\* C7 as stated: with a node that satisfies the criterion,
\* compute_activation_utilization_by_cut returns a value rather than failing,
\* its peak is the maximum over the cached cuts of the cut's selected bytes,
\* and no cut of the per-cut map exceeds the peak.
C7_CutDominanceNeverFails ==
    (IsByCut /\ SelectedNodes(graph, call.target_criterion) # {}) =>
        (~Failed(result) /\ PeakDominates)

\* C7 amended: with a node that satisfies the criterion, the call fails when
\* a custom configuration comes with a mode other than QCustom, when the
\* max-cut search finds no cuts, or when the bit-width of a selected node
\* does not resolve, and only then; when it returns, its peak is the maximum
\* over the cached cuts of the cut's selected bytes and no cut of the
\* per-cut map exceeds the peak.
C7_CutDominance ==
    (IsByCut /\ SelectedNodes(graph, call.target_criterion) # {}) =>
        /\ result.err \in {"none", "UnexpectedQc", "CutComputationFailed",
                           "AmbiguousActivation"}
        /\ result.err = "UnexpectedQc" <=>
              (Truthy(call.act_qcs) /\ call.bitwidth_mode # "QCustom")
        /\ result.err = "CutComputationFailed" <=>
              /\ ~(Truthy(call.act_qcs) /\ call.bitwidth_mode # "QCustom")
              /\ ~graph.max_cut
        /\ result.err = "AmbiguousActivation" <=>
              /\ ~(Truthy(call.act_qcs) /\ call.bitwidth_mode # "QCustom")
              /\ graph.max_cut
              /\ \E n \in SelectedNodes(graph, call.target_criterion) :
                    Failed(CallActivationNbits(n))
        /\ ~Failed(result) => PeakDominates

C7_Witness ==
    /\ IsByCut
    /\ ~Failed(result)
    /\ Len(result.val.util_per_cut) >= 3
    /\ \E i, j \in 1..Len(result.val.util_per_cut) :
          /\ i < j
          /\ result.val.util_per_cut[j].util.bytes = result.val.total
          /\ Bits(result.val.util_per_cut[i].util.bytes) < Bits(result.val.total)
          /\ Bits(result.val.util_per_cut[i].util.bytes) > 0
    /\ SelectedNodes(graph, call.target_criterion) # NodeIds(graph)

IsGetActivationNbits == call.op = "_get_activation_nbits"

\* C8: given a custom activation configuration in mode QCustom,
\* _get_activation_nbits returns 32 if the configuration has quantization
\* disabled and the configuration's n_bits otherwise, whatever the node's
\* candidates and whether or not the node's own quantization is enabled.
C8_CustomActivationConfigWins ==
    (IsGetActivationNbits /\ call.qc # <<>> /\ call.bitwidth_mode = "QCustom") =>
        result = Ret(IF call.qc[1].enable THEN call.qc[1].n_bits ELSE 32)

C8_Witness ==
    /\ IsGetActivationNbits
    /\ call.bitwidth_mode = "QCustom"
    /\ call.qc = <<QCfg(16, FALSE)>>
    /\ call.node.actEnabled
    /\ call.node.actBits = {4, 8}
    /\ result = Ret(32)

\* C9: with no custom configuration, _get_activation_nbits returns 32 in mode
\* Float or when the node's activation quantization is disabled, in every
\* mode; otherwise 8 in mode Q8Bit; otherwise the largest (QMaxBit) or the
\* smallest (QMinBit) n_bits of the node's candidates.
C9_ActivationResolutionOrder ==
    (IsGetActivationNbits /\ call.qc = <<>>) =>
        IF call.bitwidth_mode = "Float" \/ ~call.node.actEnabled
        THEN result = Ret(32)
        ELSE /\ call.bitwidth_mode = "Q8Bit" => result = Ret(8)
             /\ call.bitwidth_mode = "QMaxBit" =>
                   /\ ~Failed(result)
                   /\ result.val \in call.node.actBits
                   /\ \A b \in call.node.actBits : b <= result.val
             /\ call.bitwidth_mode = "QMinBit" =>
                   /\ ~Failed(result)
                   /\ result.val \in call.node.actBits
                   /\ \A b \in call.node.actBits : b >= result.val

C9_Witness ==
    /\ IsGetActivationNbits
    /\ call.qc = <<>>
    /\ call.bitwidth_mode = "Q8Bit"
    /\ ~call.node.actEnabled
    /\ call.node.actBits = {4, 6}
    /\ result = Ret(32)

\* the selected nodes of the last call whose bit-width has no default: no
\* custom configuration, quantization enabled, not exactly one unique candidate
AmbiguousNodes ==
    {n \in SelectedNodes(graph, call.target_criterion) :
        /\ QcsGet(call.act_qcs, n) = <<>>
        /\ graph.nodes[n].actEnabled
        /\ Cardinality(graph.nodes[n].actBits) # 1}

\* C10: in mode QCustom or QDefaultSP, with no custom configuration and the
\* node's activation quantization enabled, _get_activation_nbits returns the
\* n_bits of the node's single unique candidate and raises the ambiguity
\* ValueError when the unique candidates are not exactly one; a
\* compute_resource_utilization call that needs the activation of such a node
\* returns no result.
C10_AmbiguousDefault ==
    /\ (/\ IsGetActivationNbits
        /\ call.qc = <<>>
        /\ call.bitwidth_mode \in {"QCustom", "QDefaultSP"}
        /\ call.node.actEnabled)
           => IF Cardinality(call.node.actBits) = 1
              THEN ~Failed(result) /\ call.node.actBits = {result.val}
              ELSE result.err = "AmbiguousActivation" /\ result.err \in ValueErrors
    /\ (/\ IsCRU
        /\ call.bitwidth_mode \in {"QCustom", "QDefaultSP"}
        /\ {"ACTIVATION", "TOTAL"} \cap Requested # {}
        /\ AmbiguousNodes # {})
           => Failed(result)

C10_Witness ==
    /\ IsGetActivationNbits
    /\ call.qc = <<>>
    /\ call.bitwidth_mode = "QDefaultSP"
    /\ call.node.actEnabled
    /\ call.node.actBits = {6, 8}
    /\ result.err = "AmbiguousActivation"

IsGetWeightNbits == call.op = "_get_weight_nbits"

\* the attribute the last _get_weight_nbits call resolves, on its node
CallAttr == call.node.weights[call.w_attr]

\* the custom weight configuration of the last call holds an entry for the attribute
HasAttrEntry == call.qc # <<>> /\ call.w_attr \in DOMAIN call.qc[1]

\* C11: _get_weight_nbits returns the n_bits of the custom configuration's
\* entry for the attribute (32 if the entry disables quantization); with no
\* such entry, or no custom configuration, it returns 32 in mode Float or for
\* an attribute whose quantization is disabled, 8 in Q8Bit, the largest or
\* smallest n_bits of the attribute's candidates in QMaxBit / QMinBit, and
\* in QCustom / QDefaultSP the attribute's single unique candidate, raising
\* the ambiguity ValueError when the attribute does not have exactly one.
C11_WeightResolution ==
    (IsGetWeightNbits /\ ~(call.qc # <<>> /\ call.bitwidth_mode # "QCustom")) =>
        IF HasAttrEntry
        THEN result = Ret(IF call.qc[1][call.w_attr].enable
                          THEN call.qc[1][call.w_attr].n_bits ELSE 32)
        ELSE IF call.bitwidth_mode = "Float" \/ ~CallAttr.enabled
        THEN result = Ret(32)
        ELSE /\ call.bitwidth_mode = "Q8Bit" => result = Ret(8)
             /\ call.bitwidth_mode = "QMaxBit" =>
                   /\ ~Failed(result)
                   /\ result.val \in CallAttr.bits
                   /\ \A b \in CallAttr.bits : b <= result.val
             /\ call.bitwidth_mode = "QMinBit" =>
                   /\ ~Failed(result)
                   /\ result.val \in CallAttr.bits
                   /\ \A b \in CallAttr.bits : b >= result.val
             /\ call.bitwidth_mode \in {"QCustom", "QDefaultSP"} =>
                   IF Cardinality(CallAttr.bits) = 1
                   THEN ~Failed(result) /\ CallAttr.bits = {result.val}
                   ELSE result.err = "AmbiguousWeight" /\ result.err \in ValueErrors

C11_Witness ==
    /\ IsGetWeightNbits
    /\ call.bitwidth_mode = "QCustom"
    /\ call.qc = <<KernelCfg(QCfg(2, TRUE))>>
    /\ call.w_attr = "bias"
    /\ CallAttr.enabled
    /\ CallAttr.bits = {4, 8}
    /\ call.node.weights["kernel"].bits = {2}
    /\ result.err = "AmbiguousWeight"

\* the entry of w_qcs for node n names an attribute the node does not carry
BadEntry(g, w_qcs, n) ==
    /\ QcsGet(w_qcs, n) # <<>>
    /\ (DOMAIN w_qcs[n]) \ (DOMAIN g.nodes[n].weights) # {}

\* the nodes whose weights the weights metric computes
WeightNodes(g, target_criterion) == {p[1] : p \in CountedWeights(g, target_criterion)}

\* a selected attribute of node n has no bit-width in the last call
UnresolvedWeight(n) ==
    \E p \in CountedWeights(graph, call.target_criterion) :
        /\ p[1] = n
        /\ Failed(GetWeightNbits(graph.nodes[n], p[2], call.bitwidth_mode,
                                 QcsGet(call.w_qcs, n)))

\* the weight nodes on which the weights computation of the last call stops
Offenders ==
    {n \in WeightNodes(graph, call.target_criterion) :
        BadEntry(graph, call.w_qcs, n) \/ UnresolvedWeight(n)}

FirstOffender ==
    CHOOSE n \in Offenders : \A m \in Offenders : TopoPos(graph, n) <= TopoPos(graph, m)

\* the last call computes the weights metric with its w_qcs
ComputesWeights ==
    \/ IsCWU
    \/ /\ IsCRU
       /\ {"WEIGHTS", "TOTAL"} \cap Requested # {}
       /\ ~(UnusedActQcs /\ ~call.allow_unused_qcs)

\* C12 as stated: in mode QCustom, a compute_resource_utilization call that
\* requests Weights, Total or BOPS with a w_qcs entry naming an attribute its
\* node does not carry fails with the unexpected-attributes ValueError.
C12_UnknownAttributeAlwaysFails ==
    (/\ IsCRU
     /\ call.bitwidth_mode = "QCustom"
     /\ {"WEIGHTS", "TOTAL", "BOPS"} \cap Requested # {}
     /\ \E n \in NodeIds(graph) : BadEntry(graph, call.w_qcs, n))
        => result.err = "UnexpectedWeightAttrs"

\* C12 amended: in mode QCustom, a call that computes the weights metric
\* (Weights or Total requested) fails with the unexpected-attributes
\* ValueError when such an entry belongs to a node whose weights are computed
\* (not flagged reuse, an attribute selected by the criterion) and no earlier
\* node fails to resolve; in no other case is that error raised: not for a
\* node whose weights are not computed, not when only BOPS is requested.
C12_UnknownAttributeOnComputedWeights ==
    /\ (/\ ComputesWeights
        /\ call.bitwidth_mode = "QCustom"
        /\ \E n \in WeightNodes(graph, call.target_criterion) :
              BadEntry(graph, call.w_qcs, n))
           => /\ Failed(result)
              /\ result.err = IF BadEntry(graph, call.w_qcs, FirstOffender)
                              THEN "UnexpectedWeightAttrs" ELSE "AmbiguousWeight"
              /\ result.err \in ValueErrors
    /\ ((IsCRU \/ IsCWU) /\ result.err = "UnexpectedWeightAttrs")
           => /\ ComputesWeights
              /\ call.bitwidth_mode = "QCustom"
              /\ \E n \in WeightNodes(graph, call.target_criterion) :
                    BadEntry(graph, call.w_qcs, n)

C12_Witness ==
    /\ IsCRU
    /\ call.bitwidth_mode = "QCustom"
    /\ call.ru_targets = {"TOTAL"}
    /\ call.target_criterion = "QConfigurable"
    /\ \E n \in WeightNodes(graph, call.target_criterion) :
          /\ BadEntry(graph, call.w_qcs, n)
          /\ graph.nodes[n].type = "SepConv"
    /\ result.err = "UnexpectedWeightAttrs"

\* the public operations that accept a custom configuration
CustomCfgOps ==
    {"compute_resource_utilization", "compute_weights_utilization",
     "compute_node_weights_utilization", "compute_activations_utilization",
     "compute_activation_utilization_by_cut", "compute_activation_tensors_utilization",
     "compute_node_activation_tensor_utilization", "compute_bops", "compute_node_bops"}

\* the last call was given a non-empty custom configuration
CustomCfgGiven == Truthy(call.act_qcs) \/ Truthy(call.w_qcs) \/ call.qc # <<>>

\* C13: a public operation given a non-empty custom configuration with a
\* mode other than QCustom fails with the unexpected-configuration
\* ValueError and returns no value.
C13_CustomCfgRequiresQCustomEverywhere ==
    (/\ call.op \in CustomCfgOps
     /\ CustomCfgGiven
     /\ call.bitwidth_mode # "QCustom")
        => result.err = "UnexpectedQc"

\* compute_bops, given act_qcs in mode Q8Bit, returns a BOPS value
C13_Witness ==
    /\ call.op = "compute_bops"
    /\ call.target_criterion = "AnyQuantized"
    /\ call.bitwidth_mode = "Q8Bit"
    /\ Truthy(call.act_qcs)
    /\ ~Failed(result)
    /\ result.val.nodes_bops # <<>>

IsBops == call.op = "compute_bops"

\* C14: compute_bops with a criterion other than AnyQuantized raises the
\* NotImplementedError of its criterion check, and with AnyQuantized it
\* does not; compute_resource_utilization with BOPS among its targets (the
\* default of all targets included) returns no record for such a criterion.
C14_BopsOnlyForAnyQuantized ==
    /\ IsBops =>
          /\ (call.target_criterion # "AnyQuantized") <=> (result.err = "BopsCriterion")
          /\ result.err = "BopsCriterion" => result.err \in NotImplementedErrors
    /\ (/\ IsCRU
        /\ "BOPS" \in Requested
        /\ call.target_criterion # "AnyQuantized")
           => Failed(result)

C14_Witness ==
    /\ IsCRU
    /\ call.ru_targets = {}
    /\ call.target_criterion = "QConfigurable"
    /\ cache.filled
    /\ result.err = "BopsCriterion"

IsNodeBops == call.op = "compute_node_bops"

\* node n has MACs, a single incoming edge and a single kernel attribute
Factorizes(g, n) ==
    /\ g.nodes[n].mac > 0
    /\ Cardinality({e \in g.edges : e[2] = n}) = 1
    /\ Len(GetKernelOpAttributes(g.nodes[n].type)) = 1

\* m * a * w of such a node, with the bit-widths of its input's activation
\* and of its kernel
ExpectedNodeBops(g, n, bitwidth_mode, act_qcs, w_qc) ==
    LET src == CHOOSE m \in NodeIds(g) : <<m, n>> \in g.edges
        a == GetActivationNbits(g.nodes[src], bitwidth_mode, QcsGet(act_qcs, src))
        w == GetWeightNbits(g.nodes[n], GetKernelOpAttributes(g.nodes[n].type)[1],
                            bitwidth_mode, w_qc)
    IN [ok |-> ~Failed(a) /\ ~Failed(w), val |-> g.nodes[n].mac * a.val * w.val]

\* the nodes with a quantized weight attribute and a kernel weight to quantize
BopsNodes(g) ==
    {n \in NodeIds(g) :
        /\ \E attr \in DOMAIN g.nodes[n].weights : g.nodes[n].weights[attr].enabled
        /\ \E i \in 1..Len(GetKernelOpAttributes(g.nodes[n].type)) :
              g.nodes[n].weights[GetKernelOpAttributes(g.nodes[n].type)[i]].enabled}

\* C15: compute_node_bops returns 0 for a node without MACs and m * a * w for
\* a node with MACs, one incoming edge and one kernel attribute, a resolved
\* for the source of the edge with its entry of act_qcs and w for the kernel;
\* a successful compute_bops lists exactly the nodes with a quantized weight
\* attribute and a kernel weight to quantize, each with that value, and its
\* total is the sum of the listed values.
C15_BopsFactorization ==
    /\ IsNodeBops =>
          LET exp == ExpectedNodeBops(graph, call.n, call.bitwidth_mode, call.act_qcs, call.qc)
          IN /\ graph.nodes[call.n].mac = 0 => result = Ret(0)
             /\ Factorizes(graph, call.n) =>
                   IF exp.ok THEN result = Ret(exp.val) ELSE Failed(result)
    /\ (IsBops /\ ~Failed(result)) =>
          LET items == result.val.nodes_bops
          IN /\ {items[i].key : i \in 1..Len(items)} = BopsNodes(graph)
             /\ Len(items) = Cardinality(BopsNodes(graph))
             /\ result.val.total = SumOver(1..Len(items), [i \in 1..Len(items) |-> items[i].bops])
             /\ \A i \in 1..Len(items) :
                   LET exp == ExpectedNodeBops(graph, items[i].key, call.bitwidth_mode,
                                               call.act_qcs, QcsGet(call.w_qcs, items[i].key))
                   IN /\ graph.nodes[items[i].key].mac = 0 => items[i].bops = 0
                      /\ Factorizes(graph, items[i].key) =>
                            exp.ok /\ items[i].bops = exp.val

\* a custom-mode compute_bops over a graph with a convolution whose kernel is
\* not quantized: the following node is listed with 2 MACs x 4 bits x 8 bits
C15_Witness ==
    /\ IsBops
    /\ call.bitwidth_mode = "QCustom"
    /\ Truthy(call.act_qcs)
    /\ ~Failed(result)
    /\ \E n \in NodeIds(graph) : graph.nodes[n] = BiasQuantConvNode
    /\ result.val.nodes_bops = <<[key |-> 3, bops |-> 64]>>
    /\ result.val.total = 64

\* the op type of node n has more than one kernel attribute
MultiKernel(g, n) == Len(GetKernelOpAttributes(g.nodes[n].type)) > 1

\* the number of edges into node n
InDegree(g, n) == Cardinality({e \in g.edges : e[2] = n})

\* the activation bit-width of the input of node n, which has one incoming edge
InputNbits(g, n, bitwidth_mode, act_qcs) ==
    LET src == CHOOSE m \in NodeIds(g) : <<m, n>> \in g.edges
    IN GetActivationNbits(g.nodes[src], bitwidth_mode, QcsGet(act_qcs, src))

\* C16 as stated: compute_node_bops on a node whose op type has more than one
\* kernel attribute raises the multiple-kernel NotImplementedError.
C16_MultiKernelAlwaysRejected ==
    (IsNodeBops /\ MultiKernel(graph, call.n)) => result.err = "MultipleKernelAttrs"

\* C16 amended: on such a node compute_node_bops raises the multiple-kernel
\* NotImplementedError exactly when the node has MACs, exactly one incoming
\* edge and an input whose activation bit-width resolves; it returns a
\* value, 0, exactly when the node has no MACs or no incoming edge; a
\* successful compute_bops lists such a node only with 0.
C16_MultiKernelRejectedWhenReached ==
    /\ (IsNodeBops /\ MultiKernel(graph, call.n)) =>
          LET mac == graph.nodes[call.n].mac
              deg == InDegree(graph, call.n)
          IN /\ (result.err = "MultipleKernelAttrs") <=>
                    /\ mac > 0
                    /\ deg = 1
                    /\ ~Failed(InputNbits(graph, call.n, call.bitwidth_mode, call.act_qcs))
             /\ result.err = "MultipleKernelAttrs" => result.err \in NotImplementedErrors
             /\ ~Failed(result) <=> (mac = 0 \/ deg = 0)
             /\ ~Failed(result) => result.val = 0
    /\ (IsBops /\ ~Failed(result)) =>
          \A i \in 1..Len(result.val.nodes_bops) :
              LET n == result.val.nodes_bops[i].key
              IN MultiKernel(graph, n) =>
                    /\ result.val.nodes_bops[i].bops = 0
                    /\ graph.nodes[n].mac = 0 \/ InDegree(graph, n) = 0

C16_Witness ==
    /\ IsNodeBops
    /\ MultiKernel(graph, call.n)
    /\ graph.nodes[call.n].mac > 0
    /\ InDegree(graph, call.n) = 1
    /\ call.bitwidth_mode = "QMinBit"
    /\ result.err = "MultipleKernelAttrs"

\* C17 as stated: compute_node_bops on a node with MACs whose number of
\* incoming edges is not one fails the single-input assertion.
C17_NotOneEdgeFailsAssertion ==
    (/\ IsNodeBops
     /\ graph.nodes[call.n].mac > 0
     /\ InDegree(graph, call.n) # 1)
        => result.err = "AssertSingleInput"

\* C17 amended: on a node with MACs, compute_node_bops fails the
\* single-input assertion exactly when the node has more than one incoming
\* edge, and returns 0 when it has none; so a value other than 0 is returned
\* only for a node with exactly one incoming edge, and a successful
\* compute_bops lists no node with more than one.
C17_SingleInputAsserted ==
    /\ (IsNodeBops /\ graph.nodes[call.n].mac > 0) =>
          LET deg == InDegree(graph, call.n)
          IN /\ (result.err = "AssertSingleInput") <=> (deg > 1)
             /\ result.err = "AssertSingleInput" => result.err \in AssertionErrors
             /\ deg = 0 => result = Ret(0)
             /\ (~Failed(result) /\ result.val # 0) => deg = 1
    /\ (IsBops /\ ~Failed(result)) =>
          \A i \in 1..Len(result.val.nodes_bops) :
              LET n == result.val.nodes_bops[i].key
              IN /\ InDegree(graph, n) <= 1
                 /\ InDegree(graph, n) = 0 => result.val.nodes_bops[i].bops = 0

C17_Witness ==
    /\ IsNodeBops
    /\ graph.nodes[call.n].mac > 0
    /\ InDegree(graph, call.n) = 2
    /\ call.bitwidth_mode = "QCustom"
    /\ call.qc # <<>>
    /\ result.err = "AssertSingleInput"

\* the last compute_resource_utilization call made again, on the cache it
\* left, in another mode
SameCallInMode(bitwidth_mode) ==
    ComputeResourceUtilization(graph, cache, call.target_criterion, bitwidth_mode,
                               call.act_qcs, call.w_qcs, call.ru_targets,
                               call.allow_unused_qcs).res

\* a metric of a record as a number: bits for the memory metrics
MetricValue(ru, t) == IF t = "BOPS" THEN ru[t] ELSE Bits(ru[t])

\* C18: when compute_resource_utilization succeeds in mode QMaxBit and in
\* mode QMinBit with the same graph, criterion and targets, the weights
\* bytes, the peak activation bytes and the BOPS of the QMaxBit record are at
\* least those of the QMinBit record; likewise for compute_bops alone.
C18_MaxBitDominatesMinBit ==
    /\ (IsCRU /\ call.bitwidth_mode = "QMaxBit" /\ ~Failed(result)) =>
          LET min == SameCallInMode("QMinBit")
          IN ~Failed(min) =>
                /\ DOMAIN min.val = DOMAIN result.val
                /\ \A t \in {"WEIGHTS", "ACTIVATION", "BOPS"} \cap DOMAIN result.val :
                      MetricValue(result.val, t) >= MetricValue(min.val, t)
    /\ (IsBops /\ call.bitwidth_mode = "QMaxBit" /\ ~Failed(result)) =>
          LET min == ComputeBops(graph, call.target_criterion, "QMinBit",
                                 call.act_qcs, call.w_qcs)
          IN ~Failed(min) => result.val.total >= min.val.total

\* a QMaxBit call whose three metrics are all larger than in mode QMinBit
C18_Witness ==
    /\ IsCRU
    /\ call.bitwidth_mode = "QMaxBit"
    /\ call.target_criterion = "AnyQuantized"
    /\ ~Failed(result)
    /\ {"WEIGHTS", "ACTIVATION", "BOPS"} \subseteq DOMAIN result.val
    /\ ~Failed(SameCallInMode("QMinBit"))
    /\ \A t \in {"WEIGHTS", "ACTIVATION", "BOPS"} :
          MetricValue(result.val, t) > MetricValue(SameCallInMode("QMinBit").val, t)

\* C19: compute_resource_utilization in mode Float and in mode Q8Bit, with
\* the same graph, criterion and targets, both succeed or both fail, and
\* every metric of the Float record (weights, peak activation, total, BOPS)
\* is at least the same metric of the Q8Bit record; likewise for
\* compute_bops alone.
C19_FloatDominatesQ8Bit ==
    /\ (IsCRU /\ call.bitwidth_mode = "Float") =>
          LET q8 == SameCallInMode("Q8Bit")
          IN /\ Failed(q8) <=> Failed(result)
             /\ q8.err = result.err
             /\ ~Failed(result) =>
                   /\ DOMAIN q8.val = DOMAIN result.val
                   /\ \A t \in DOMAIN result.val :
                         MetricValue(result.val, t) >= MetricValue(q8.val, t)
    /\ (IsBops /\ call.bitwidth_mode = "Float" /\ ~Failed(result)) =>
          LET q8 == ComputeBops(graph, call.target_criterion, "Q8Bit",
                                call.act_qcs, call.w_qcs)
          IN ~Failed(q8) => result.val.total >= q8.val.total

\* a Float call for all targets whose four metrics are all larger than in
\* mode Q8Bit
C19_Witness ==
    /\ IsCRU
    /\ call.bitwidth_mode = "Float"
    /\ call.ru_targets = {}
    /\ ~Failed(result)
    /\ DOMAIN result.val = RUTarget
    /\ ~Failed(SameCallInMode("Q8Bit"))
    /\ \A t \in RUTarget :
          MetricValue(result.val, t) > MetricValue(SameCallInMode("Q8Bit").val, t)

\* the last compute_resource_utilization call made with the same arguments
\* on the instance whose cut cache is c
SameCallOn(c) ==
    ComputeResourceUtilization(graph, c, call.target_criterion, call.bitwidth_mode,
                               call.act_qcs, call.w_qcs, call.ru_targets,
                               call.allow_unused_qcs)

\* C20: a compute_resource_utilization call made again with the same
\* arguments, on the cache the first call left, returns the same record or
\* fails with the same error, and leaves the cache as it is; the record is
\* also the one the call gives on an instance whose cache is still empty, so
\* a call that fills the cache and one that reads it agree.
C20_Idempotence ==
    LET Again(again) == again.res = result /\ again.cache = cache
        Fresh(fresh) == fresh.res = result /\ fresh.cache \in {cache, NoCuts}
    IN IsCRU => /\ Again(SameCallOn(cache))
                /\ cache.filled => Fresh(SameCallOn(NoCuts))

\* a successful call for the activation metric that leaves a cache of
\* several cuts, the one it builds from an empty cache
C20_Witness ==
    /\ IsCRU
    /\ ~Failed(result)
    /\ "ACTIVATION" \in DOMAIN result.val
    /\ cache.filled
    /\ Len(cache.cuts) >= 2
    /\ SameCallOn(NoCuts).cache = cache
    /\ SameCallOn(cache).res = result

\* C21: no step changes the graph; a step changes the cut cache only from
\* unset to filled; a filled cache is left as it is by every later call, so
\* every later query reads the same cuts.
C21_CacheWrittenOnce ==
    [][/\ graph' = graph
       /\ cache' # cache => (~cache.filled /\ cache'.filled)
       /\ cache.filled => (cache'.filled /\ cache'.cuts = cache.cuts)]_vars

\* a query by cut answered from cuts that are cached
C21_Witness ==
    /\ IsByCut
    /\ ~Failed(result)
    /\ cache.filled
    /\ Len(cache.cuts) = Len(graph.nodes)
    /\ Len(result.val.util_per_cut) >= 2

\* an activation query was made before the dispatch
Prewarmed == threads.phase \in {"warmed", "parallel"} /\ call.op \in ActivationQueries

\* C22 as stated: after any activation query has completed the cut cache is
\* filled, and self._cuts is assigned at most once.
C22_AnyActivationQueryPrewarms ==
    Prewarmed => (cache.filled /\ threads.writes <= 1)

\* the query made before the dispatch got as far as reading the cuts, and
\* the max-cut computation found some: it measures the activation by cut, a
\* node satisfies its criterion and, in a compute call, the weights metric
\* computed before the activation metric did not fail
ReadCuts ==
    LET WeightsFirst(targets) ==
            \/ {"WEIGHTS", "TOTAL"} \cap targets = {}
            \/ ~Failed(ComputeWeightsUtilization(graph, call.target_criterion,
                                                 call.bitwidth_mode, NoQcs))
        ComputeCall(targets) ==
            /\ {"ACTIVATION", "TOTAL"} \cap targets # {}
            /\ WeightsFirst(targets)
    IN /\ call.op \in {"compute_activation_utilization_by_cut",
                       "compute_activations_utilization", "compute_resource_utilization"}
       /\ call.op = "compute_resource_utilization" =>
              ComputeCall(EffectiveTargets(call.ru_targets))
       /\ SelectedNodes(graph, call.target_criterion) # {}
       /\ graph.max_cut

\* C22 amended: the query made before the dispatch leaves the cache filled
\* exactly when it read the cuts and the max-cut computation found some,
\* whether the query then returns or fails while it measures a node; the
\* calls dispatched after such a query only read the cache: none computes or
\* assigns the cuts, self._cuts has been assigned once in all, and every
\* thread is handed the cuts of the query.
C22_PrewarmByCutQuery ==
    /\ (Prewarmed /\ threads.phase = "warmed") => (cache.filled <=> ReadCuts)
    /\ (Prewarmed /\ ReadCuts /\ threads.phase = "parallel") =>
          /\ threads.warm.filled
          /\ cache = threads.warm
          /\ threads.writes = 1
          /\ \A t \in ThreadIds :
                /\ threads.pc[t] \in {"check", "read", "done"}
                /\ threads.pc[t] = "done" => threads.seen[t] = threads.warm

\* after a query by cut, all the parallel calls have returned the cached cuts
C22_Witness ==
    /\ Prewarmed
    /\ ReadCuts
    /\ threads.phase = "parallel"
    /\ \A t \in ThreadIds : threads.pc[t] = "done" /\ threads.seen[t] = cache
    /\ Len(cache.cuts) >= 2
    /\ threads.writes = 1

\* the calls that measure the activation by cut
MeasuresByCut ==
    \/ IsByCut
    \/ call.op = "compute_activations_utilization"
    \/ IsCRU /\ {"ACTIVATION", "TOTAL"} \cap Requested # {}

\* the last call fails before it reads the cuts: on the check of the custom
\* configurations, or, in compute_resource_utilization, on the validation of
\* the configurations or in the weights computed first
FailsBeforeCuts ==
    LET Weights(w_valid) ==
            /\ ~Failed(w_valid)
            /\ {"WEIGHTS", "TOTAL"} \cap Requested # {}
            /\ Failed(ComputeWeightsUtilization(graph, call.target_criterion,
                                                call.bitwidth_mode, w_valid.val))
    IN \/ UnexpectedQcs(IF IsCRU THEN call.w_qcs ELSE NoQcs, call.act_qcs, call.bitwidth_mode)
       \/ /\ IsCRU
          /\ \/ (UnusedWQcs \/ UnusedActQcs) /\ ~call.allow_unused_qcs
             \/ Weights(ValidateWQcs(call.w_qcs, Requested, call.allow_unused_qcs))

\* C23: when the max-cut computation returns no cuts, a call that reaches the
\* cuts (it measures the activation by cut, selects a node and does not fail
\* earlier) fails with the cut-computation RuntimeError, returns no result
\* and leaves the cache unset; the error is raised in no other case.
C23_CutComputationFailed ==
    /\ (MeasuresByCut /\ ~graph.max_cut /\ SelectedNodes(graph, call.target_criterion) # {})
          => /\ Failed(result)
             /\ result.err = "CutComputationFailed" <=> ~FailsBeforeCuts
             /\ result.val \in {NoCutUtilization, ZeroBytes, EmptyRU}
             /\ cache = NoCuts
    /\ result.err = "CutComputationFailed"
          => /\ MeasuresByCut
             /\ ~graph.max_cut
             /\ SelectedNodes(graph, call.target_criterion) # {}

\* a compute call that requests the total on a graph without cuts fails after
\* its weights were computed
C23_Witness ==
    /\ IsCRU
    /\ Requested = {"TOTAL"}
    /\ ~graph.max_cut
    /\ Len(graph.nodes) >= 2
    /\ CountedWeights(graph, call.target_criterion) # {}
    /\ result.err = "CutComputationFailed"
    /\ cache = NoCuts

IsGetTargetWeightAttrs == call.op = "_get_target_weight_attrs"

\* the attributes _get_target_weight_attrs selects on the node of the last
\* call under the given criterion
CallSelection(target_criterion) ==
    LET attrs == GetTargetWeightAttrs(call.node, target_criterion)
    IN {attrs[i] : i \in 1..Len(attrs)}

\* C24: on a node, _get_target_weight_attrs returns, each once, exactly the
\* configurable attributes for QConfigurable, the quantization-enabled ones
\* for AnyQuantized, the enabled and not configurable ones for
\* QNonConfigurable and all the attributes for Any; the QConfigurable and
\* QNonConfigurable selections are disjoint, and their union is the
\* AnyQuantized selection when every configurable attribute is enabled.
C24_WeightTargetSelection ==
    LET attrs == DOMAIN call.node.weights
        Enabled(a) == call.node.weights[a].enabled
        Configurable(a) == Enabled(a) /\ Cardinality(call.node.weights[a].bits) > 1
        Expected ==
            CASE call.target_criterion = "QConfigurable" -> {a \in attrs : Configurable(a)}
              [] call.target_criterion = "AnyQuantized" -> {a \in attrs : Enabled(a)}
              [] call.target_criterion = "QNonConfigurable" ->
                    {a \in attrs : Enabled(a) /\ ~Configurable(a)}
              [] call.target_criterion = "Any" -> attrs
    IN IsGetTargetWeightAttrs =>
          /\ ~Failed(result)
          /\ {result.val[i] : i \in 1..Len(result.val)} = Expected
          /\ Len(result.val) = Cardinality(Expected)
          /\ CallSelection(call.target_criterion) = Expected
          /\ CallSelection("QConfigurable") \cap CallSelection("QNonConfigurable") = {}
          /\ (\A a \in attrs : Configurable(a) => Enabled(a)) =>
                CallSelection("QConfigurable") \cup CallSelection("QNonConfigurable")
                    = CallSelection("AnyQuantized")
          /\ CallSelection("Any") = attrs

\* a node with a kernel that is not quantized and a configurable bias, under
\* QNonConfigurable: nothing is selected though Any selects both
C24_Witness ==
    /\ IsGetTargetWeightAttrs
    /\ call.target_criterion = "QNonConfigurable"
    /\ DOMAIN call.node.weights = {"kernel", "bias"}
    /\ ~call.node.weights["kernel"].enabled
    /\ Cardinality(call.node.weights["kernel"].bits) > 1
    /\ CallSelection("QConfigurable") = {"bias"}
    /\ CallSelection("Any") = {"kernel", "bias"}
    /\ result.val = <<>>

\* the nodes flagged reuse
ReusedNodes(g) == {n \in NodeIds(g) : g.nodes[n].reuse}

\* the keys of a detail map
Keys(items) == {items[i].key : i \in 1..Len(items)}

\* the per-node map returned for the k-th cached cut holds node n with the
\* bytes of its activation
CutCountsNode(k, n) ==
    \E i \in 1..Len(result.val.util_per_cut_per_node) :
        /\ result.val.util_per_cut_per_node[i].key = cache.cuts[k].cut
        /\ result.val.util_per_cut[i].key = cache.cuts[k].cut
        /\ \E j \in 1..Len(result.val.util_per_cut_per_node[i].util) :
              /\ result.val.util_per_cut_per_node[i].util[j].key = n
              /\ result.val.util_per_cut_per_node[i].util[j].util
                    = Utilization(graph.nodes[n].out, BytesOf(ActivationBits[n]))
        /\ Bits(result.val.util_per_cut[i].util.bytes) = CutBits(k)
        /\ CutBits(k) >= ActivationBits[n]

\* C25: in a returned compute_activation_utilization_by_cut, a node flagged
\* reuse that satisfies the criterion is counted, with the bytes of its
\* activation, in every cached cut that contains it; in a returned
\* compute_weights_utilization no node flagged reuse has an entry, and the
\* total is the sum of the entries of the other nodes.
C25_ReusedInActivationNotInWeights ==
    /\ (IsByCut /\ ~Failed(result)) =>
          \A n \in ReusedNodes(graph) \cap SelectedNodes(graph, call.target_criterion) :
              /\ cache.filled
              /\ \E k \in 1..Len(cache.cuts) : n \in CutNodes(k)
              /\ \A k \in 1..Len(cache.cuts) : n \in CutNodes(k) => CutCountsNode(k, n)
    /\ (IsCWU /\ ~Failed(result)) =>
          /\ Keys(result.val.util_per_node) \cap ReusedNodes(graph) = {}
          /\ Keys(result.val.util_per_node_per_weight) \cap ReusedNodes(graph) = {}
          /\ Bits(result.val.total) =
                SumOver(1..Len(result.val.util_per_node),
                        [i \in 1..Len(result.val.util_per_node) |->
                            Bits(result.val.util_per_node[i].util.bytes)])

\* a reused node is counted in two cuts of a by-cut call
C25_Witness ==
    /\ IsByCut
    /\ ~Failed(result)
    /\ \E n \in ReusedNodes(graph) \cap SelectedNodes(graph, call.target_criterion) :
          /\ Cardinality({k \in 1..Len(cache.cuts) : n \in CutNodes(k)}) >= 2
          /\ \A k \in 1..Len(cache.cuts) : n \in CutNodes(k) => CutCountsNode(k, n)
          /\ ActivationBits[n] > 0
          /\ GetTargetWeightAttrs(graph.nodes[n], call.target_criterion) # <<>>

IsTopoSort == call.op = "_topo_sort"

\* the keys of a detail map, in the order of the map
KeySeq(items) == [i \in 1..Len(items) |-> items[i].key]

\* keys lists the nodes of S, each once, in the graph's topological order
TopoOrdered(keys, S) ==
    /\ {keys[i] : i \in 1..Len(keys)} = S
    /\ Len(keys) = Cardinality(S)
    /\ \A i, j \in 1..Len(keys) : i < j => TopoPos(graph, keys[i]) < TopoPos(graph, keys[j])

\* the graph, with node n missing from its topological order
WithoutTopo(n) ==
    LET Others(m) == m # n IN [graph EXCEPT !.topo = SelectSeq(graph.topo, Others)]

\* C26: the keys of the two detail maps a returned compute_weights_utilization
\* gives are exactly the nodes whose weights are selected, in the graph's
\* topological order; were a selected node missing from the topological
\* order, the call would fail; _topo_sort returns the nodes it is given in
\* topological order, and fails when one of them is not in the topological
\* order.
C26_WeightMapsInTopoOrder ==
    /\ (IsCWU /\ ~Failed(result)) =>
          /\ TopoOrdered(KeySeq(result.val.util_per_node),
                         WeightNodes(graph, call.target_criterion))
          /\ KeySeq(result.val.util_per_node_per_weight) = KeySeq(result.val.util_per_node)
    /\ (IsCWU /\ result.err # "UnexpectedQc") =>
          \A n \in WeightNodes(graph, call.target_criterion) :
              ComputeWeightsUtilization(WithoutTopo(n), call.target_criterion,
                                        call.bitwidth_mode, call.w_qcs)
                  = Raise("TopoSort", NoWeightsUtilization)
    /\ IsTopoSort =>
          LET given == {call.nodes[i] : i \in 1..Len(call.nodes)}
          IN IF Len(call.nodes) = Cardinality(given) /\ given \subseteq NodeIds(graph)
             THEN ~Failed(result) /\ TopoOrdered(result.val, given)
             ELSE result.err = "TopoSort"

\* the weights of two nodes, listed against the order of graph.nodes
C26_Witness ==
    /\ IsCWU
    /\ ~Failed(result)
    /\ Len(result.val.util_per_node) = 2
    /\ result.val.util_per_node[1].key > result.val.util_per_node[2].key
    /\ result.val.util_per_node_per_weight[1].key = result.val.util_per_node[1].key

IsTensors == call.op = "compute_activation_tensors_utilization"

\* the nodes whose activation tensor the last call measures
TensorNodes ==
    {n \in SelectedNodes(graph, call.target_criterion) :
        call.include_reused \/ ~graph.nodes[n].reuse}

\* keys lists the nodes of S, each once, in the order of graph.nodes
NodesOrdered(keys, S) ==
    /\ {keys[i] : i \in 1..Len(keys)} = S
    /\ Len(keys) = Cardinality(S)
    /\ \A i, j \in 1..Len(keys) : i < j => keys[i] < keys[j]

\* the cached cuts that hold a selected node, in the order of the cache, each
\* with its selected nodes in the order of its memory elements
SelectedCuts ==
    LET Selected(n) == n \in SelectedNodes(graph, call.target_criterion)
        HasSelected(c) == SelectSeq(c.nodes, Selected) # <<>>
        Kept(kept) ==
            [k \in 1..Len(kept) |->
                [key |-> kept[k].cut, nodes |-> SelectSeq(kept[k].nodes, Selected)]]
    IN Kept(SelectSeq(cache.cuts, HasSelected))

\* the per-node maps of the weights and of the activation tensors are in
\* topological order, and the per-cut maps list the cached cuts that hold a
\* selected node in the order of the cache, each with its selected nodes in
\* the order of its memory elements
SortedMapsInOrder ==
    /\ (IsCWU /\ ~Failed(result)) =>
          TopoOrdered(KeySeq(result.val.util_per_node),
                      WeightNodes(graph, call.target_criterion))
    /\ (IsTensors /\ ~Failed(result)) =>
          TopoOrdered(KeySeq(result.val.util_per_node), TensorNodes)
    /\ (IsByCut /\ ~Failed(result) /\ result.val # NoCutUtilization) =>
          /\ KeySeq(result.val.util_per_cut) = KeySeq(SelectedCuts)
          /\ KeySeq(result.val.util_per_cut_per_node) = KeySeq(SelectedCuts)
          /\ \A i \in 1..Len(SelectedCuts) :
                KeySeq(result.val.util_per_cut_per_node[i].util) = SelectedCuts[i].nodes

\* C27 as stated: every per-node detail map, the per-node BOPS map of
\* compute_bops included, has its keys in the graph's topological order, and
\* every per-cut map lists its cuts in the order of their enumeration.
C27_AllDetailMapsInTopoOrder ==
    /\ SortedMapsInOrder
    /\ (IsBops /\ ~Failed(result)) =>
          TopoOrdered(KeySeq(result.val.nodes_bops), BopsNodes(graph))

\* C27 amended: the per-node maps of compute_weights_utilization and of
\* compute_activation_tensors_utilization have their keys in topological
\* order; the per-node BOPS map of compute_bops lists its nodes in the order
\* of graph.nodes; every per-cut map lists the cuts that hold a selected
\* node in the order of their enumeration, and its per-node map of a cut
\* follows the cut's memory elements.
C27_DetailMapsOrder ==
    /\ SortedMapsInOrder
    /\ (IsBops /\ ~Failed(result)) =>
          NodesOrdered(KeySeq(result.val.nodes_bops), BopsNodes(graph))

\* a BOPS map of two nodes that is not in topological order
C27_Witness ==
    /\ IsBops
    /\ ~Failed(result)
    /\ Len(result.val.nodes_bops) = 2
    /\ result.val.nodes_bops[1].key < result.val.nodes_bops[2].key
    /\ TopoPos(graph, result.val.nodes_bops[1].key)
          > TopoPos(graph, result.val.nodes_bops[2].key)
    /\ result.val.nodes_bops[1].bops > 0

\* the cuts of the max-cut computation that have memory elements
LiveCuts ==
    LET NonEmpty(cut) == cut # <<>> IN SelectSeq(ComputeCuts(graph).cuts, NonEmpty)

\* C28: whenever the cut cache is filled, every cached cut has a memory
\* element and is mapped to a list of as many nodes of the graph, one node
\* for each element, bearing the element's name and tensor; the cached
\* cuts are the computed cuts that have memory elements, each once, in the
\* order in which the computation first gave them.
C28_CutCacheInvariant ==
    LET Resolved(cut, nodes) ==
            /\ cut # <<>>
            /\ Len(nodes) = Len(cut)
            /\ \A i \in 1..Len(nodes) : nodes[i] \in NodeIds(graph)
            /\ \A e \in {cut[i] : i \in 1..Len(cut)} :
                  Cardinality({i \in 1..Len(nodes) :
                                  /\ NodeName(nodes[i]) = e.node_name
                                  /\ graph.nodes[nodes[i]].out = e.total_size})
                     = Cardinality({i \in 1..Len(cut) : cut[i] = e})
        FirstIn(live, cut) ==
            CHOOSE j \in 1..Len(live) :
                /\ SameCut(live[j], cut)
                /\ \A l \in 1..(j - 1) : ~SameCut(live[l], cut)
        Cached(live) ==
            /\ \A k \in 1..Len(cache.cuts) :
                  /\ \E j \in 1..Len(live) : SameCut(live[j], cache.cuts[k].cut)
                  /\ Resolved(cache.cuts[k].cut, cache.cuts[k].nodes)
            /\ \A j \in 1..Len(live) :
                  \E k \in 1..Len(cache.cuts) : SameCut(live[j], cache.cuts[k].cut)
            /\ \A k, l \in 1..Len(cache.cuts) :
                  k < l => /\ ~SameCut(cache.cuts[k].cut, cache.cuts[l].cut)
                           /\ FirstIn(live, cache.cuts[k].cut) < FirstIn(live, cache.cuts[l].cut)
    IN cache.filled => Cached(LiveCuts)

\* a filled cache from which a cut without memory elements was pruned, with a
\* cut of two elements whose nodes are not in the order of graph.nodes
C28_Witness ==
    /\ cache.filled
    /\ Len(cache.cuts) < Len(ComputeCuts(graph).cuts)
    /\ \E k \in 1..Len(cache.cuts) :
          /\ Len(cache.cuts[k].nodes) = 2
          /\ cache.cuts[k].nodes[1] > cache.cuts[k].nodes[2]

\* C29: a call of compute_activation_utilization_by_cut made when no node of
\* the graph satisfies the criterion leaves the cut cache as it was, unset if
\* it was unset, and returns peak 0 with empty per-cut maps (the call given
\* custom configurations outside mode QCustom is rejected, as everywhere).
C29_NoTargetNoCuts ==
    [][(/\ call.op = "idle"
        /\ call'.op = "compute_activation_utilization_by_cut"
        /\ SelectedNodes(graph, call'.target_criterion) = {})
          => /\ cache' = cache
             /\ graph' = graph
             /\ result' = IF Truthy(call'.act_qcs) /\ call'.bitwidth_mode # "QCustom"
                          THEN Raise("UnexpectedQc", NoCutUtilization)
                          ELSE Ret([total |-> ZeroBytes, util_per_cut |-> <<>>,
                                    util_per_cut_per_node |-> <<>>])]_vars

\* the call returned 0 on a graph of several nodes whose cuts can be computed
\* and the cache is still unset
C29_Witness ==
    /\ IsByCut
    /\ SelectedNodes(graph, call.target_criterion) = {}
    /\ result = Ret(NoCutUtilization)
    /\ graph.max_cut
    /\ Len(graph.nodes) >= 2
    /\ cache = NoCuts

\* what the last compute_resource_utilization call returns when made with
\* the given ru_targets
SameCallTargets(ru_targets) ==
    ComputeResourceUtilization(graph, cache, call.target_criterion, call.bitwidth_mode,
                               call.act_qcs, call.w_qcs, ru_targets,
                               call.allow_unused_qcs).res

\* C30: compute_resource_utilization given no ru_targets, or an empty
\* collection, does what it does when given the four targets: the same
\* result or the same error; a returned record has the four metrics, with
\* total = weights + activation; and no custom configuration is found unused.
C30_EmptyTargetsMeanAll ==
    (IsCRU /\ call.ru_targets = {}) =>
        /\ result = SameCallTargets(RUTarget)
        /\ result.err \notin {"UnusedWeightQc", "UnusedActivationQc", "AssertMetrics"}
        /\ ~Failed(result) =>
              /\ DOMAIN result.val = {"WEIGHTS", "ACTIVATION", "TOTAL", "BOPS"}
              /\ Bits(result.val["TOTAL"])
                    = Bits(result.val["WEIGHTS"]) + Bits(result.val["ACTIVATION"])
              /\ call.target_criterion = "AnyQuantized"
        /\ (call.target_criterion # "AnyQuantized" /\ result.err \notin ValueErrors
              /\ result.err # "CutComputationFailed")
              => result.err = "BopsCriterion"

\* a call without ru_targets, given configurations of weights and of
\* activations, returns the four metrics
C30_Witness ==
    /\ IsCRU
    /\ call.ru_targets = {}
    /\ ~Failed(result)
    /\ Truthy(call.w_qcs)
    /\ Truthy(call.act_qcs)
    /\ DOMAIN result.val = RUTarget
    /\ result.val["BOPS"] > 0
    /\ Bits(result.val["WEIGHTS"]) > 0
    /\ Bits(result.val["ACTIVATION"]) > 0

=============================================================================
